---- MODULE Spec2Model ----
(***************************************************************************)
(* Model of the Cosm backend: the Flask entry point api.search and the     *)
(* SpaceInfoScraper pipeline of space_scraper.py (query analysis, source   *)
(* adapters, fallback knowledge base, aggregation and ranking).            *)
(*                                                                         *)
(* Text is modelled by TLA+ strings, used as sequences of characters       *)
(* (Len, \o, Head, Tail and SubSeq act on them).  An optional value        *)
(* (Python None / a missing HTML element) is <<>>, a present one <<v>>.    *)
(***************************************************************************)
EXTENDS Integers, Sequences, FiniteSets, TLC

(***************************************************************************)
(* Python string primitives                                                *)
(***************************************************************************)
None == <<>>

Some(v) == <<v>>

\* the character at position i of s, as a string of length 1
CharAt(s, i) == SubSeq(s, i, i)

\* A str holds Unicode characters; a string of this module holds the
\* characters of code points 1 to 255, the grave accent (96) excepted.
\* Latin1 lists them by code point.
Latin1 == "\t\n\f\r !\"#$%&'()*+,-./0123456789:;<=>?@ABCDEFGHIJKLMNOPQRSTUVWXYZ[\\]^_abcdefghijklmnopqrstuvwxyz{|}~ ¡¢£¤¥¦§¨©ª«¬­®¯°±²³´µ¶·¸¹º»¼½¾¿ÀÁÂÃÄÅÆÇÈÉÊËÌÍÎÏÐÑÒÓÔÕÖ×ØÙÚÛÜÝÞßàáâãäåæçèéêëìíîïðñòóôõö÷øùúûüýþÿ"

\* the character of any other code point: no string of this module holds it
beyond_alphabet(n) == CHOOSE c \in {} : c = n

\* chr(n)
chr(n) ==
    IF n \in 1..95 THEN CharAt(Latin1, n)
    ELSE IF n \in 97..255 THEN CharAt(Latin1, n - 1)
    ELSE beyond_alphabet(n)

ascii_letters == "abcdefghijklmnopqrstuvwxyzABCDEFGHIJKLMNOPQRSTUVWXYZ"

\* the code points c with chr(c).isspace()
whitespace == { chr(n) : n \in (9..13) \cup (28..32) \cup {133, 160} }

\* the characters c with c.lower() != c: A-Z, and the capitals of Latin-1
uppercase_letters == { chr(n) : n \in (65..90) \cup (192..214) \cup (216..222) }

\* the characters c with c.upper() one character of the same alphabet other
\* than c: a-z, and the small letters of Latin-1 but for U+00DF, U+00B5 and
\* U+00FF
lowercase_letters == { chr(n) : n \in (97..122) \cup (224..246) \cup (248..254) }

\* the characters c with c.isalpha(): the cased letters and the two ordinal
\* indicators U+00AA and U+00BA
letters ==
    { chr(n) : n \in (65..90) \cup (97..122) \cup {170, 181, 186}
                     \cup (192..214) \cup (216..246) \cup (248..255) }

to_lower ==
    [c \in uppercase_letters |-> chr((CHOOSE n \in (65..90) \cup (192..222) : chr(n) = c) + 32)]

to_upper ==
    [c \in lowercase_letters |-> chr((CHOOSE n \in 97..254 : chr(n) = c) - 32)]

\* str.lower() on one character
LowerChar(c) == IF c \in uppercase_letters THEN to_lower[c] ELSE c

\* str.upper() on one character
UpperChar(c) ==
    IF c \in lowercase_letters THEN to_upper[c]
    ELSE IF c = chr(223) THEN "SS"
    ELSE IF c = chr(181) THEN beyond_alphabet(924)
    ELSE IF c = chr(255) THEN beyond_alphabet(376)
    ELSE c

RECURSIVE lower(_)
\* str.lower(): every character lower-cased, the two halves of s in turn
lower(s) ==
    IF Len(s) = 0 THEN ""
    ELSE IF Len(s) = 1 THEN LowerChar(s)
    ELSE lower(SubSeq(s, 1, Len(s) \div 2)) \o lower(SubSeq(s, Len(s) \div 2 + 1, Len(s)))

\* the Python expression  a in b  on two strings
Contains(b, a) ==
    \E i \in 1..(Len(b) - Len(a) + 1) : SubSeq(b, i, i + Len(a) - 1) = a

\* str.startswith
startswith(s, p) == Len(p) <= Len(s) /\ SubSeq(s, 1, Len(p)) = p

RECURSIVE lstrip(_)
lstrip(s) == IF Len(s) > 0 /\ Head(s) \in whitespace THEN lstrip(Tail(s)) ELSE s

RECURSIVE rstrip(_)
rstrip(s) ==
    IF Len(s) > 0 /\ CharAt(s, Len(s)) \in whitespace
    THEN rstrip(SubSeq(s, 1, Len(s) - 1)) ELSE s

\* str.strip()
strip(s) == rstrip(lstrip(s))

\* str.isalpha()
isalpha(s) ==
    /\ Len(s) > 0
    /\ \A i \in 1..Len(s) : CharAt(s, i) \in letters

RECURSIVE SplitAcc(_, _, _)
\* scan s, cutting at the characters of seps; cur is the word being read
SplitAcc(s, cur, seps) ==
    IF Len(s) = 0
    THEN IF Len(cur) = 0 THEN <<>> ELSE <<cur>>
    ELSE IF Head(s) \in seps
         THEN IF Len(cur) = 0
              THEN SplitAcc(Tail(s), "", seps)
              ELSE <<cur>> \o SplitAcc(Tail(s), "", seps)
         ELSE SplitAcc(Tail(s), cur \o Head(s), seps)

\* str.split() without argument: the maximal runs of non-whitespace
split(s) == SplitAcc(s, "", whitespace)

RECURSIVE join(_, _)
\* sep.join(words), the two halves of the list in turn
join(sep, words) ==
    IF Len(words) = 0 THEN ""
    ELSE IF Len(words) = 1 THEN words[1]
    ELSE join(sep, SubSeq(words, 1, Len(words) \div 2)) \o sep
         \o join(sep, SubSeq(words, Len(words) \div 2 + 1, Len(words)))

RECURSIVE replace_char(_, _, _)
\* str.replace(old, new) for a single character old, the two halves of s in turn
replace_char(s, old, new) ==
    IF Len(s) = 0 THEN ""
    ELSE IF Len(s) = 1 THEN (IF s = old THEN new ELSE s)
    ELSE replace_char(SubSeq(s, 1, Len(s) \div 2), old, new)
         \o replace_char(SubSeq(s, Len(s) \div 2 + 1, Len(s)), old, new)

\* the members of a sequence
Range(seq) == { seq[i] : i \in 1..Len(seq) }

(***************************************************************************)
(* The NLTK collaborators of process_nlp                                   *)
(***************************************************************************)
\* nltk.corpus.stopwords.words('english'), the alphabetic entries
stop_words ==
    {"i", "me", "my", "myself", "we", "our", "ours", "ourselves", "you", "your",
     "yours", "yourself", "yourselves", "he", "him", "his", "himself", "she",
     "her", "hers", "herself", "it", "its", "itself", "they", "them", "their",
     "theirs", "themselves", "what", "which", "who", "whom", "this", "that",
     "these", "those", "am", "is", "are", "was", "were", "be", "been", "being",
     "have", "has", "had", "having", "do", "does", "did", "doing", "a", "an",
     "the", "and", "but", "if", "or", "because", "as", "until", "while", "of",
     "at", "by", "for", "with", "about", "against", "between", "into",
     "through", "during", "before", "after", "above", "below", "to", "from",
     "up", "down", "in", "out", "on", "off", "over", "under", "again",
     "further", "then", "once", "here", "there", "when", "where", "why", "how",
     "all", "any", "both", "each", "few", "more", "most", "other", "some",
     "such", "no", "nor", "not", "only", "own", "same", "so", "than", "too",
     "very", "s", "t", "can", "will", "just", "don", "should", "now", "d",
     "ll", "m", "o", "re", "ve", "y", "ain", "aren", "couldn", "didn",
     "doesn", "hadn", "hasn", "haven", "isn", "ma", "mightn", "mustn",
     "needn", "shan", "shouldn", "wasn", "weren", "won", "wouldn"}

\* the WordNet nouns among the words the model's queries and pages use
wordnet_nouns ==
    {"mars", "mar", "rover", "mission", "falcon", "dragon", "red", "planet",
     "comet", "moon", "telescope", "webb", "james", "black", "hole", "space",
     "launch", "rocket", "galaxy", "star", "image", "station"}

\* WordNet's rules of detachment for nouns: <<suffix, replacement>>
MORPHOLOGICAL_SUBSTITUTIONS ==
    << <<"s", "">>, <<"ses", "s">>, <<"ves", "f">>, <<"xes", "x">>,
       <<"zes", "z">>, <<"ches", "ch">>, <<"shes", "sh">>, <<"men", "man">>,
       <<"ies", "y">> >>

endswith(s, suffix) ==
    Len(suffix) <= Len(s) /\ SubSeq(s, Len(s) - Len(suffix) + 1, Len(s)) = suffix

RECURSIVE FlattenSeq(_)
\* the concatenation of a sequence of sequences
FlattenSeq(ss) == IF Len(ss) = 0 THEN <<>> ELSE Head(ss) \o FlattenSeq(Tail(ss))

\* the rules applied once to every form
apply_rules(forms) ==
    FlattenSeq([i \in 1..Len(forms) |->
        FlattenSeq([j \in 1..Len(MORPHOLOGICAL_SUBSTITUTIONS) |->
            LET old == MORPHOLOGICAL_SUBSTITUTIONS[j][1]
                new == MORPHOLOGICAL_SUBSTITUTIONS[j][2]
            IN  IF endswith(forms[i], old)
                THEN <<SubSeq(forms[i], 1, Len(forms[i]) - Len(old)) \o new>>
                ELSE <<>>])])

\* the forms that are WordNet lemmas, in order, without repetition
filter_forms(forms) ==
    LET keep(i) == /\ forms[i] \in wordnet_nouns
                   /\ \A k \in 1..(i - 1) : forms[k] # forms[i]
    IN  FlattenSeq([i \in 1..Len(forms) |-> IF keep(i) THEN <<forms[i]>> ELSE <<>>])

RECURSIVE morphy_loop(_)
morphy_loop(forms) ==
    IF Len(forms) = 0 THEN <<>>
    ELSE LET next == apply_rules(forms)
             results == filter_forms(next)
         IN  IF Len(results) > 0 THEN results ELSE morphy_loop(next)

\* WordNetCorpusReader._morphy for nouns
morphy(form) ==
    LET forms == apply_rules(<<form>>)
        results == filter_forms(<<form>> \o forms)
    IN  IF Len(results) > 0 THEN results ELSE morphy_loop(forms)

\* min(lemmas, key=len): the first shortest entry
MinByLen(lemmas) ==
    lemmas[CHOOSE i \in 1..Len(lemmas) :
              /\ \A k \in 1..Len(lemmas) : Len(lemmas[i]) <= Len(lemmas[k])
              /\ \A k \in 1..(i - 1) : Len(lemmas[k]) > Len(lemmas[i])]

\* the lemmatizer object held in self.lemmatizer: the WordNet lemmatizer of
\* __init__, the identity stub the tests install, or one whose corpus is absent
LemmatizerModes == {"wordnet", "identity", "missing"}

\* self.lemmatizer.lemmatize(word) when it returns
lemmatize(mode, word) ==
    IF mode = "identity" THEN word
    ELSE LET lemmas == morphy(word)
         IN  IF Len(lemmas) > 0 THEN MinByLen(lemmas) ELSE word

\* word_tokenize on text made of letters and whitespace: the words in order
word_tokenize(text) == split(text)

\* the characters the pattern \w does not match: all but those with
\* isalnum(), which are the letters, the digits and the fractions, and "_"
non_word_characters ==
    { chr(n) : n \in (1..95) \cup (97..255) }
        \ (letters \cup { chr(n) : n \in (48..57) \cup {95, 178, 179, 185} \cup (188..190) })

\* re.findall(r'\w+', text.lower()): the maximal runs of word characters
regex_tokenize(text) == SplitAcc(lower(text), "", non_word_characters)

\* simple_tokenize: word_tokenize, or the regular expression when it raises
simple_tokenize(punkt, text) ==
    IF punkt THEN word_tokenize(text) ELSE regex_tokenize(text)

(***************************************************************************)
(* process_nlp                                                             *)
(***************************************************************************)
space_keywords ==
    << [category |-> "nasa",      keywords |-> <<"nasa", "space", "mission", "rocket", "astronaut">>],
       [category |-> "mars",      keywords |-> <<"mars", "red", "planet", "rover", "perseverance", "curiosity">>],
       [category |-> "moon",      keywords |-> <<"moon", "lunar", "apollo", "artemis">>],
       [category |-> "iss",       keywords |-> <<"iss", "international", "space", "station">>],
       [category |-> "spacex",    keywords |-> <<"spacex", "falcon", "dragon", "elon", "musk">>],
       [category |-> "satellite", keywords |-> <<"satellite", "orbit", "gps">>],
       [category |-> "solar",     keywords |-> <<"solar", "sun", "system", "planet">>],
       [category |-> "asteroid",  keywords |-> <<"asteroid", "meteor", "comet">>],
       [category |-> "hubble",    keywords |-> <<"hubble", "telescope", "image", "webb", "james">>],
       [category |-> "launch",    keywords |-> <<"launch", "rocket", "mission">>],
       [category |-> "galaxy",    keywords |-> <<"galaxy", "milky", "way", "star">>],
       [category |-> "universe",  keywords |-> <<"universe", "cosmos", "big", "bang", "black", "hole", "quasar">>] >>

\* the tokens left after the stop words and the non-alphabetic tokens are dropped
filtered_tokens(punkt, query) ==
    SelectSeq(simple_tokenize(punkt, lower(query)),
              LAMBDA word : isalpha(word) /\ word \notin stop_words)

\* process_nlp raises when a token reaches a lemmatizer whose corpus is absent
process_nlp_raises(punkt, mode, query) ==
    mode = "missing" /\ Len(filtered_tokens(punkt, query)) > 0

\* classify_intent with the last matching category in place of the first
classify_intent_last(lemmatized) ==
    LET hit(c) == \E k \in 1..Len(space_keywords[c].keywords) :
                     space_keywords[c].keywords[k] \in Range(lemmatized)
    IN  IF \E c \in 1..Len(space_keywords) : hit(c)
        THEN space_keywords[CHOOSE c \in 1..Len(space_keywords) :
                               hit(c) /\ \A d \in (c + 1)..Len(space_keywords) : ~hit(d)].category
        ELSE "general"

\* the category loop of process_nlp: the first category with a trigger keyword
\* in the lemmatized list, else 'general'
classify_intent(lemmatized) ==
    LET hit(c) == \E k \in 1..Len(space_keywords[c].keywords) :
                     space_keywords[c].keywords[k] \in Range(lemmatized)
    IN  IF \E c \in 1..Len(space_keywords) : hit(c)
        THEN space_keywords[CHOOSE c \in 1..Len(space_keywords) :
                               hit(c) /\ \A d \in 1..(c - 1) : ~hit(d)].category
        ELSE "general"

process_nlp(punkt, mode, query) ==
    LET filtered == filtered_tokens(punkt, query)
        lemmatized == [i \in 1..Len(filtered) |-> lemmatize(mode, filtered[i])]
    IN  [processed_query |-> join(" ", lemmatized),
         original_query  |-> query,
         intent          |-> classify_intent(lemmatized),
         keywords        |-> lemmatized]

(***************************************************************************)
(* calculate_relevance and the fallback knowledge base                     *)
(***************************************************************************)
RECURSIVE CountHits(_, _)
CountHits(text_lower, keywords) ==
    IF Len(keywords) = 0 THEN 0
    ELSE (IF Contains(text_lower, Head(keywords)) THEN 1 ELSE 0)
         + CountHits(text_lower, Tail(keywords))

calculate_relevance(text, keywords) == CountHits(lower(text), keywords)

fallback_data ==
    << [key |-> "mars", title |-> "Mars - The Red Planet",
        description |-> "Mars is the fourth planet from the Sun and is known as the Red Planet due to iron oxide on its surface. NASA has sent multiple rovers including Perseverance and Curiosity to explore Mars.",
        link |-> "https://mars.nasa.gov/"],
       [key |-> "moon", title |-> "Earth's Moon",
        description |-> "The Moon is Earth's only natural satellite. NASA's Apollo missions landed humans on the Moon, and the Artemis program aims to return astronauts to the lunar surface.",
        link |-> "https://moon.nasa.gov/"],
       [key |-> "black hole", title |-> "Black Holes",
        description |-> "Black holes are regions of spacetime where gravity is so strong that nothing can escape. The Event Horizon Telescope captured the first image of a black hole in 2019.",
        link |-> "https://www.nasa.gov/audience/forstudents/k-4/stories/nasa-knows/what-is-a-black-hole-k4.html"],
       [key |-> "spacex", title |-> "SpaceX",
        description |-> "SpaceX is a private aerospace company founded by Elon Musk. They develop reusable rockets and spacecraft, including the Falcon 9 rocket and Dragon capsule.",
        link |-> "https://www.spacex.com/"],
       [key |-> "iss", title |-> "International Space Station",
        description |-> "The ISS is a space station in low Earth orbit where astronauts conduct scientific research. It has been continuously occupied since 2000.",
        link |-> "https://www.nasa.gov/mission_pages/station/main/index.html"],
       [key |-> "hubble", title |-> "Hubble Space Telescope",
        description |-> "The Hubble Space Telescope has been observing the universe since 1990, providing stunning images and scientific discoveries about distant galaxies, nebulae, and planets.",
        link |-> "https://hubblesite.org/"],
       [key |-> "james webb", title |-> "James Webb Space Telescope",
        description |-> "The James Webb Space Telescope is the most powerful space telescope ever built, designed to observe the universe in infrared light and study the formation of the first galaxies.",
        link |-> "https://webb.nasa.gov/"] >>

FallbackRelevance == 3

GenericRelevance == 2

\* fallback_match with equality where the code tests containment
fallback_match_exact(key, query_info) ==
    \/ lower(query_info.original_query) = key
    \/ query_info.intent = key
    \/ \E i \in 1..Len(query_info.keywords) : query_info.keywords[i] = key

\* the test of the loop of get_fallback_results for one topic key
fallback_match(key, query_info) ==
    \/ Contains(lower(query_info.original_query), key)
    \/ Contains(key, query_info.intent)
    \/ \E i \in 1..Len(query_info.keywords) : Contains(key, query_info.keywords[i])

\* the generic article given the relevance of the topic articles
generic_article_medium ==
    [title |-> "Space Exploration", link |-> "https://www.nasa.gov/",
     description |-> "Space exploration involves the discovery and exploration of celestial structures in outer space by means of continuously evolving space technology. NASA, ESA, and other space agencies lead missions to study planets, moons, asteroids, and distant galaxies.",
     source |-> "Static Knowledge", relevance |-> FallbackRelevance]

generic_article ==
    [title |-> "Space Exploration", link |-> "https://www.nasa.gov/",
     description |-> "Space exploration involves the discovery and exploration of celestial structures in outer space by means of continuously evolving space technology. NASA, ESA, and other space agencies lead missions to study planets, moons, asteroids, and distant galaxies.",
     source |-> "Static Knowledge", relevance |-> GenericRelevance]

\* get_fallback_results without the generic article for the case of no match
get_fallback_results_no_default(query_info) ==
    FlattenSeq([i \in 1..Len(fallback_data) |->
        IF fallback_match(fallback_data[i].key, query_info)
        THEN <<[title |-> fallback_data[i].title, link |-> fallback_data[i].link,
                description |-> fallback_data[i].description,
                source |-> "Static Knowledge", relevance |-> FallbackRelevance]>>
        ELSE <<>>])

get_fallback_results(query_info) ==
    LET entry(i) ==
            [title |-> fallback_data[i].title, link |-> fallback_data[i].link,
             description |-> fallback_data[i].description,
             source |-> "Static Knowledge", relevance |-> FallbackRelevance]
        results == FlattenSeq([i \in 1..Len(fallback_data) |->
                       IF fallback_match(fallback_data[i].key, query_info)
                       THEN <<entry(i)>> ELSE <<>>])
    IN  IF Len(results) = 0 THEN <<generic_article>> ELSE results

(***************************************************************************)
(* The network: requests.get and get_with_retry                            *)
(*                                                                         *)
(* The outcome of one requests.get is None when the call raises, else      *)
(* Some(response).  A response carries its status, whether its text holds  *)
(* the marker 'captcha', the length of its text, its final url, and what   *)
(* the adapter's selectors find in its markup: the candidate blocks (each  *)
(* with an optional heading text, an optional anchor href and an optional  *)
(* description text), the page heading, the paragraphs of its content     *)
(* division (None without one) and the facts of its tables and lists.      *)
(***************************************************************************)
MaxRetries == 3

BlockedLength == 1000

Response(status_code, url, captcha, text_len, blocks) ==
    [status_code |-> status_code, url |-> url, captcha |-> captcha,
     text_len |-> text_len, blocks |-> blocks,
     heading |-> None, content |-> None, facts |-> <<>>]

Block(title, href, desc) == [title |-> title, href |-> href, desc |-> desc]

\* the blocking test without the clause on short answers
is_blocked_captcha_only(response) == response.captcha

\* the blocking test of get_with_retry
is_blocked(response) ==
    response.captcha \/ (response.status_code = 200 /\ response.text_len < BlockedLength)

\* the Referer header get_headers adds for a site, None when it adds none
referer(site) ==
    CASE site = "google"    -> Some("https://www.google.com/")
      [] site = "nasa"      -> Some("https://www.nasa.gov/")
      [] site = "wikipedia" -> Some("https://www.wikipedia.org/")
      [] OTHER              -> None

\* the locals of get_with_retry(url, site) when it enters its loop, get_headers
\* having chosen the user agent of index agent
entered(site, agent) ==
    [pc |-> "loop", site |-> site, agent |-> agent, referer |-> referer(site),
     draws |-> 1, retries |-> 0, log |-> <<>>, returned |-> None]

\* one pass of the while loop on the locals: requests.get(url, headers=headers,
\* timeout=15) gives outcome; an exception and a blocked response count one
\* retry, any other response is returned
request(locals, outcome) ==
    IF outcome = None
    THEN [locals EXCEPT !.retries = @ + 1,
                        !.log = Append(@, [agent |-> locals.agent, kind |-> "raised"])]
    ELSE IF is_blocked(outcome[1])
    THEN [locals EXCEPT !.retries = @ + 1,
                        !.log = Append(@, [agent |-> locals.agent, kind |-> "blocked"])]
    ELSE [locals EXCEPT !.pc = "returned", !.returned = outcome,
                        !.log = Append(@, [agent |-> locals.agent, kind |-> "accepted"])]

RECURSIVE retry_loop(_, _)
\* the while loop of get_with_retry run to its return; attempts[k] is the
\* outcome of the k-th request
retry_loop(locals, attempts) ==
    IF locals.pc = "returned" THEN locals
    ELSE IF locals.retries >= MaxRetries
    THEN [locals EXCEPT !.pc = "returned", !.returned = None]
    ELSE retry_loop(request(locals, attempts[Len(locals.log) + 1]), attempts)

\* what get_with_retry returns; the user agent does not bear on it
get_with_retry(attempts) == retry_loop(entered("none", 1), attempts).returned

\* a site that answers every attempt of one call alike
Repeat(outcome) == [k \in 1..MaxRetries |-> outcome]

\* the test  not response or response.status_code != 200
failed(response) == response = None \/ response[1].status_code # 200

(***************************************************************************)
(* Helpers shared by the adapters                                          *)
(***************************************************************************)
Take(seq, n) == SubSeq(seq, 1, IF Len(seq) < n THEN Len(seq) ELSE n)

RECURSIVE InsertDesc(_, _)
\* a goes behind every article whose relevance is at least its own
InsertDesc(sorted, a) ==
    IF Len(sorted) = 0 THEN <<a>>
    ELSE IF Head(sorted).relevance >= a.relevance
         THEN <<Head(sorted)>> \o InsertDesc(Tail(sorted), a)
         ELSE <<a>> \o sorted

RECURSIVE SortAcc(_, _)
SortAcc(articles, sorted) ==
    IF Len(articles) = 0 THEN sorted
    ELSE SortAcc(Tail(articles), InsertDesc(sorted, Head(articles)))

\* sorted(articles, key=lambda x: x['relevance'], reverse=True), which is stable
sort_by_relevance(articles) == SortAcc(articles, <<>>)

\* the 'Fix relative URLs' step of the adapters
fix_relative(base, link) ==
    IF startswith(link, "/") THEN base \o link
    ELSE IF ~startswith(link, "http") THEN base \o "/" \o link
    ELSE link

Article(title, link, description, source, relevance) ==
    [title |-> title, link |-> link, description |-> description,
     source |-> source, relevance |-> relevance]

\* elem.get_text().strip() if elem else default
text_or(elem, default) == IF elem # None THEN strip(elem[1]) ELSE default

(***************************************************************************)
(* scrape_nasa_news                                                        *)
(***************************************************************************)
nasa_item(item, keywords) ==
    IF item.title # None /\ item.href # None /\ Len(item.href[1]) > 0
    THEN LET title == strip(item.title[1])
             link == fix_relative("https://www.nasa.gov", item.href[1])
             description == text_or(item.desc, "View this NASA article for more information.")
         IN  <<Article(title, link, description, "NASA",
                       calculate_relevance(title \o " " \o description, keywords))>>
    ELSE <<>>

\* net.search answers the three search urls, net.home the homepage tried last
scrape_nasa_news(query_info, net) ==
    LET searched == get_with_retry(Repeat(net.search))
        response == IF ~failed(searched) THEN searched ELSE get_with_retry(Repeat(net.home))
    IN  IF failed(response) THEN <<>>
        ELSE LET news_items == Take(response[1].blocks, 5)
             IN  sort_by_relevance(FlattenSeq(
                     [i \in 1..Len(news_items) |-> nasa_item(news_items[i], query_info.keywords)]))

(***************************************************************************)
(* scrape_universe_today, scrape_spacex_info, scrape_nasa_homepage: the    *)
(* adapters that call requests.get themselves                              *)
(***************************************************************************)
universe_today_item(item, keywords) ==
    IF item.title # None /\ item.href # None
    THEN LET title == strip(item.title[1])
             href == item.href[1]
             link == IF ~startswith(href, "http")
                     THEN "https://www.universetoday.com" \o href ELSE href
             description == text_or(item.desc, "Visit Universe Today for more information on this space-related topic.")
         IN  <<Article(title, link, description, "Universe Today",
                       calculate_relevance(title \o " " \o description, keywords))>>
    ELSE <<>>

scrape_universe_today(query_info, net) ==
    IF net.search = None THEN <<>>
    ELSE IF net.search[1].status_code # 200 THEN <<>>
    ELSE LET elements == Take(net.search[1].blocks, 5)
         IN  sort_by_relevance(FlattenSeq(
                 [i \in 1..Len(elements) |-> universe_today_item(elements[i], query_info.keywords)]))

spacex_item(section, keywords) ==
    IF section.title # None
    THEN LET title == strip(section.title[1])
             description == text_or(section.desc, "")
         IN  IF Len(title) > 5
             THEN <<Article(title, "https://www.spacex.com/", description, "SpaceX",
                            calculate_relevance(title \o " " \o description, keywords))>>
             ELSE <<>>
    ELSE <<>>

\* no status check: the markup of any response is parsed
scrape_spacex_info(query_info, net) ==
    IF net.home = None THEN <<>>
    ELSE LET sections == Take(net.home[1].blocks, 3)
         IN  sort_by_relevance(FlattenSeq(
                 [i \in 1..Len(sections) |-> spacex_item(sections[i], query_info.keywords)]))

nasa_homepage_item(block, keywords) ==
    IF block.title # None
    THEN LET title == strip(block.title[1])
             href == IF block.href # None THEN block.href[1] ELSE "https://www.nasa.gov/"
             link == fix_relative("https://www.nasa.gov", href)
             description == text_or(block.desc, "Visit NASA for the latest space news and information.")
         IN  <<Article(title, link, description, "NASA",
                       calculate_relevance(title \o " " \o description, keywords))>>
    ELSE <<>>

scrape_nasa_homepage(query_info, net) ==
    IF net.home = None THEN <<>>
    ELSE IF net.home[1].status_code # 200 THEN <<>>
    ELSE LET content_blocks == Take(net.home[1].blocks, 3)
         IN  sort_by_relevance(FlattenSeq(
                 [i \in 1..Len(content_blocks) |-> nasa_homepage_item(content_blocks[i], query_info.keywords)]))

(***************************************************************************)
(* scrape_google                                                           *)
(***************************************************************************)
RECURSIVE TakeUntil(_, _)
\* the prefix of s before its first character in stops
TakeUntil(s, stops) ==
    IF Len(s) = 0 \/ Head(s) \in stops THEN ""
    ELSE Head(s) \o TakeUntil(Tail(s), stops)

RECURSIVE DropThrough(_, _)
\* what follows the first character of s in stops; "" when there is none
DropThrough(s, stops) ==
    IF Len(s) = 0 THEN ""
    ELSE IF Head(s) \in stops THEN Tail(s) ELSE DropThrough(Tail(s), stops)

RECURSIVE split_on(_, _)
\* str.split(sep) for a single character sep: empty fields are kept
split_on(s, sep) ==
    IF ~Contains(s, sep) THEN <<s>>
    ELSE <<TakeUntil(s, {sep})>> \o split_on(DropThrough(s, {sep}), sep)

RECURSIVE lstrip_chars(_, _)
\* str.lstrip(chars)
lstrip_chars(s, chars) ==
    IF Len(s) > 0 /\ Head(s) \in chars THEN lstrip_chars(Tail(s), chars) ELSE s

\* the value of an expression computed once: the member of a singleton
Once(singleton) == CHOOSE v \in singleton : TRUE

\* the members of a string
chars_of(s) == { CharAt(s, i) : i \in 1..Len(s) }

hex_digits == chars_of("0123456789abcdefABCDEF")

\* int(c, 16) for one hexadecimal digit
hex_value(c) ==
    (CHOOSE i \in 1..16 :
        c \in {CharAt("0123456789abcdef", i), CharAt("0123456789ABCDEF", i)}) - 1

RECURSIVE int(_)
\* int(s, 10) for a string of decimal digits
int(s) ==
    IF Len(s) = 0 THEN 0
    ELSE 10 * int(SubSeq(s, 1, Len(s) - 1)) + hex_value(CharAt(s, Len(s)))

RECURSIVE hex(_)
\* '%x' % n
hex(n) ==
    IF n < 16 THEN CharAt("0123456789abcdef", n + 1)
    ELSE hex(n \div 16) \o CharAt("0123456789abcdef", (n % 16) + 1)

\* ipaddress._BaseV4._parse_octet returns rather than raising
parse_octet_ok(octet_str) ==
    /\ Len(octet_str) > 0
    /\ chars_of(octet_str) \subseteq chars_of("0123456789")
    /\ Len(octet_str) <= 3
    /\ (octet_str = "0" \/ Head(octet_str) # "0")
    /\ int(octet_str) <= 255

\* ipaddress._BaseV6._parse_hextet returns rather than raising
parse_hextet_ok(hextet_str) ==
    /\ chars_of(hextet_str) \subseteq hex_digits
    /\ Len(hextet_str) <= 4
    /\ Len(hextet_str) > 0

\* ipaddress._BaseV6._ip_int_from_string returns rather than raising, on the
\* parts between the colons, an IPv4 suffix already replaced: skips are the
\* empty parts other than the first and the last
hextets_ok(parts, skips) ==
    LET skip_index == CHOOSE i \in skips : TRUE
        leading == parts[1] = ""
        trailing == parts[Len(parts)] = ""
        parts_hi == skip_index - 1 - (IF leading THEN 1 ELSE 0)
        parts_lo == Len(parts) - skip_index - (IF trailing THEN 1 ELSE 0)
    IN  /\ Len(parts) <= 9
        /\ Cardinality(skips) <= 1
        /\ IF skips # {}
           THEN /\ leading => parts_hi = 0
                /\ trailing => parts_lo = 0
                /\ 8 - (parts_hi + parts_lo) >= 1
                /\ \A i \in 1..parts_hi : parse_hextet_ok(parts[i])
                /\ \A i \in 1..parts_lo : parse_hextet_ok(parts[Len(parts) - parts_lo + i])
           ELSE Len(parts) = 8 /\ \A i \in 1..8 : parse_hextet_ok(parts[i])

\* the same, the skips found
parts_ok(parts) ==
    hextets_ok(parts, { i \in 2..(Len(parts) - 1) : parts[i] = "" })

\* ipaddress.IPv6Address(address) returns rather than raising: the scope id,
\* then the parts between the colons, the last one replaced by two hextets
\* when it is an IPv4 address
ipv6_ok(address) ==
    LET scope_id == DropThrough(address, {"%"})
    IN  /\ Contains(address, "%") => (Len(scope_id) > 0 /\ ~Contains(scope_id, "%"))
        /\ Len(TakeUntil(address, {"%"})) > 0
        /\ \E parts \in { split_on(TakeUntil(address, {"%"}), ":") } :
               /\ Len(parts) >= 3
               /\ IF Contains(parts[Len(parts)], ".")
                  THEN \E octets \in { split_on(parts[Len(parts)], ".") } :
                           /\ Len(octets) = 4
                           /\ \A i \in 1..4 : parse_octet_ok(octets[i])
                           /\ parts_ok(SubSeq(parts, 1, Len(parts) - 1)
                                       \o <<hex(int(octets[1]) * 256 + int(octets[2])),
                                            hex(int(octets[3]) * 256 + int(octets[4]))>>)
                  ELSE parts_ok(parts)

\* urllib.parse._check_bracketed_host returns rather than raising: a hostname
\* that begins with "v" is to match \Av[a-fA-F0-9]+\..+\Z, any other to be an
\* IPv6 address
bracketed_host_ok(hostname) ==
    IF startswith(hostname, "v")
    THEN \E digits \in { Len(hostname) - 1 - Len(lstrip_chars(Tail(hostname), hex_digits)) } :
             /\ digits >= 1
             /\ Len(hostname) >= digits + 3
             /\ CharAt(hostname, digits + 2) = "."
    ELSE ipv6_ok(hostname)

\* urlsplit once the scheme is cut off url and loc is its network location:
\* the query lies between the first "?" and the "#", and a square bracket
\* without its pair or around no address raises
url_parts(url, has_netloc, loc) ==
    [netloc |-> loc,
     query |->
         Once({ IF Contains(path, "?") THEN DropThrough(path, {"?"}) ELSE "" :
                    path \in { TakeUntil(IF has_netloc THEN SubSeq(url, 3 + Len(loc), Len(url))
                                         ELSE url, {"#"}) } }),
     raises |->
         /\ has_netloc
         /\ IF Contains(loc, "[") /\ Contains(loc, "]")
            THEN \E hostname \in { TakeUntil(DropThrough(loc, {"["}), {"]"}) } :
                     ~bracketed_host_ok(hostname)
            ELSE Contains(loc, "[") \/ Contains(loc, "]")]

\* urlsplit once the scheme is cut off url
split_netloc(url) ==
    IF startswith(url, "//")
    THEN Once({ url_parts(url, TRUE, loc) :
                    loc \in { TakeUntil(SubSeq(url, 3, Len(url)), {"/", "?", "#"}) } })
    ELSE url_parts(url, FALSE, "")

\* urlsplit on a url rid of its leading control characters and spaces and of
\* its tabs and line ends; i is url.find(':'), or len(url) when there is none
split_scheme(url, i) ==
    IF /\ Contains(url, ":")
       /\ i > 0
       /\ Head(url) \in chars_of(ascii_letters)
       /\ chars_of(SubSeq(url, 1, i))
              \subseteq chars_of(ascii_letters \o "0123456789+-.")
    THEN Once({ split_netloc(rest) : rest \in { SubSeq(url, i + 2, Len(url)) } })
    ELSE split_netloc(url)

\* urlsplit(url), the parts urlparse(url) takes from it unchanged: the network
\* location, the query, and whether the call raises ValueError
urlsplit(url) ==
    Once({ split_scheme(stripped, Len(TakeUntil(stripped, {":"}))) :
               stripped \in { replace_char(replace_char(replace_char(
                                  lstrip_chars(url, { chr(n) : n \in 1..32 }),
                                  "\t", ""), "\r", ""), "\n", "") } })

\* urlparse(link).query
url_query(link) == urlsplit(link).query

\* an escape %xx begins at position i of string
escaped(string, i) ==
    /\ i >= 1
    /\ i + 2 <= Len(string)
    /\ CharAt(string, i) = "%"
    /\ CharAt(string, i + 1) \in hex_digits
    /\ CharAt(string, i + 2) \in hex_digits

\* the byte of the escape at position i
byte(string, i) ==
    16 * hex_value(CharAt(string, i + 1)) + hex_value(CharAt(string, i + 2))

\* the escape at position i is the first byte of a two-byte UTF-8 sequence
leads(string, i) ==
    /\ escaped(string, i) /\ byte(string, i) \in {194, 195}
    /\ escaped(string, i + 3) /\ byte(string, i + 3) \in 128..191

\* what the character at position i of string contributes to unquote(string)
decoded(string, i) ==
    IF escaped(string, i - 1) \/ escaped(string, i - 2) THEN ""
    ELSE IF ~escaped(string, i) THEN CharAt(string, i)
    ELSE IF byte(string, i) < 128 THEN chr(byte(string, i))
    ELSE IF leads(string, i)
    THEN chr((byte(string, i) - 192) * 64 + (byte(string, i + 3) - 128))
    ELSE IF leads(string, i - 3) THEN ""
    ELSE beyond_alphabet(byte(string, i))

\* urllib.parse.unquote: every %xx escape replaced by its byte, the bytes read
\* as UTF-8; a % that no two hexadecimal digits follow stays
unquote(string) ==
    Once({ join("", [i \in 1..Len(s) |-> decoded(s, i)]) : s \in {string} })

\* parse_qsl(qs): the name and the value of every field that has an "=" and a
\* value, "+" read as a space and the escapes decoded
parse_qsl(qs) ==
    LET fields == SelectSeq(SplitAcc(qs, "", {"&"}),
                            LAMBDA name_value : /\ Contains(name_value, "=")
                                                /\ Len(DropThrough(name_value, {"="})) > 0)
    IN  [i \in 1..Len(fields) |->
            <<unquote(replace_char(TakeUntil(fields[i], {"="}), "+", " ")),
              unquote(replace_char(DropThrough(fields[i], {"="}), "+", " "))>>]

\* parse_qs(query).get('q'): the values of the parameter q, blank ones dropped
q_values(query) ==
    LET fields == SelectSeq(parse_qsl(query), LAMBDA nv : nv[1] = "q")
    IN  [i \in 1..Len(fields) |-> fields[i][2]]

\* the link of a result: the first value of the parameter q of a redirect
google_link(href) ==
    IF startswith(href, "/url?")
    THEN Once({ IF Len(values) > 0 THEN values[1] ELSE href :
                    values \in { q_values(url_query(href)) } })
    ELSE href

\* the article of a result once its link is cleaned of the redirect
google_article(title, link, description, keywords) ==
    IF Contains(link, "google.com") /\ ~Contains(link, "scholar") /\ ~Contains(link, "books")
    THEN <<>>
    ELSE <<Article(title, link, description,
                   "Google ("
                       \o Once({ IF parsed.raises THEN "website"
                                 ELSE IF startswith(parsed.netloc, "www.")
                                 THEN SubSeq(parsed.netloc, 5, Len(parsed.netloc))
                                 ELSE parsed.netloc :
                                     parsed \in { urlsplit(link) } })
                       \o ")",
                   calculate_relevance(title \o " " \o description, keywords))>>

google_item(result, keywords) ==
    IF result.title # None /\ result.href # None
    THEN Once({ google_article(strip(result.title[1]), link,
                               text_or(result.desc, "Find more information on Google."),
                               keywords) :
                    link \in { google_link(result.href[1]) } })
    ELSE <<>>

scrape_google(query_info, net) ==
    LET response == get_with_retry(Repeat(net.search))
    IN  IF failed(response) THEN <<>>
        ELSE LET search_results == Take(response[1].blocks, 5)
             IN  sort_by_relevance(FlattenSeq(
                     [i \in 1..Len(search_results) |-> google_item(search_results[i], query_info.keywords)]))

(***************************************************************************)
(* scrape_space_com                                                        *)
(***************************************************************************)
space_com_default == "Visit Space.com for more information on this space-related topic."

RECURSIVE space_com_loop(_, _, _)
\* the loop over the search page: articles is the list built so far
space_com_loop(elements, articles, keywords) ==
    IF Len(elements) = 0 THEN articles
    ELSE LET article == Head(elements)
             title == strip(article.title[1])
             link == fix_relative("https://www.space.com", article.href[1])
             found == text_or(article.desc, space_com_default)
             description == IF Contains(lower(found), "enter your search term")
                            THEN space_com_default ELSE found
             relevance_score == calculate_relevance(title \o " " \o description, keywords)
         IN  IF article.title = None \/ article.href = None
             THEN space_com_loop(Tail(elements), articles, keywords)
             ELSE IF lower(title) = "search"
             THEN space_com_loop(Tail(elements), articles, keywords)
             ELSE IF relevance_score > 0 \/ Len(articles) = 0
             THEN space_com_loop(Tail(elements),
                      Append(articles, Article(title, link, description, "Space.com", relevance_score)),
                      keywords)
             ELSE space_com_loop(Tail(elements), articles, keywords)

space_com_featured(article) ==
    IF article.title # None /\ article.href # None
    THEN <<Article(strip(article.title[1]),
                   fix_relative("https://www.space.com", article.href[1]),
                   text_or(article.desc, "Latest space news from Space.com"),
                   "Space.com", 1)>>
    ELSE <<>>

\* the homepage request is made without a handler of its own: when it raises,
\* the handler of the whole adapter returns the empty list
scrape_space_com(query_info, net) ==
    LET response == get_with_retry(Repeat(net.search))
    IN  IF failed(response) THEN <<>>
        ELSE LET articles == space_com_loop(Take(response[1].blocks, 5), <<>>, query_info.keywords)
             IN  IF Len(articles) > 0 THEN sort_by_relevance(articles)
                 ELSE IF net.home = None THEN <<>>
                 ELSE IF net.home[1].status_code # 200 THEN <<>>
                 ELSE LET featured == Take(net.home[1].blocks, 3)
                      IN  sort_by_relevance(FlattenSeq(
                              [i \in 1..Len(featured) |-> space_com_featured(featured[i])]))

(***************************************************************************)
(* scrape_wikipedia                                                        *)
(***************************************************************************)
\* description[:500] + "..." if len(description) > 500 else description
truncate_description(description) ==
    IF Len(description) > 500 THEN SubSeq(description, 1, 500) \o "..." ELSE description

RECURSIVE substantial(_)
\* the direct article: every paragraph longer than 50 characters, each followed by a space
substantial(paragraphs) ==
    IF Len(paragraphs) = 0 THEN ""
    ELSE LET text == strip(Head(paragraphs))
         IN  (IF Len(text) > 50 THEN text \o " " ELSE "") \o substantial(Tail(paragraphs))

RECURSIVE lead_description(_, _)
\* the fetched article: the same, stopping once more than 200 characters are held
lead_description(paragraphs, description) ==
    IF Len(paragraphs) = 0 THEN description
    ELSE LET text == strip(Head(paragraphs))
         IN  IF Len(text) > 50
             THEN IF Len(description \o text \o " ") > 200
                  THEN description \o text \o " "
                  ELSE lead_description(Tail(paragraphs), description \o text \o " ")
             ELSE lead_description(Tail(paragraphs), description)

wikipedia_boost == {"black hole", "mars rover", "quasar", "galaxy"}

\* one search result; its block holds the text and the href of the result's anchor
wikipedia_result(result, keywords, fetched) ==
    IF result.href = None THEN <<>>
    ELSE LET title == text_or(result.title, "")
             link == "https://en.wikipedia.org" \o result.href[1]
         IN  IF fetched = None
             THEN <<Article(title, link, "Visit Wikipedia for detailed information on this topic.",
                            "Wikipedia", 5)>>
             ELSE LET lead == IF fetched[1].content # None
                              THEN lead_description(fetched[1].content[1], "") ELSE ""
                      description == IF Len(lead) = 0
                                     THEN "Visit Wikipedia for detailed information on this topic."
                                     ELSE lead
                      score == calculate_relevance(title \o " " \o description, keywords)
                      bonus == IF \E term \in wikipedia_boost : Contains(lower(title), term)
                               THEN 3 ELSE 0
                  IN  <<Article(title, link, truncate_description(description),
                                "Wikipedia", score + bonus)>>

scrape_wikipedia(query_info, net) ==
    LET response == get_with_retry(Repeat(net.search))
    IN  IF failed(response) THEN <<>>
        ELSE IF Contains(response[1].url, "/wiki/") /\ ~Contains(response[1].url, "search")
        THEN IF response[1].heading # None /\ response[1].content # None
             THEN LET description == strip(substantial(Take(response[1].content[1], 3)))
                  IN  IF Len(description) > 0
                      THEN <<Article(strip(response[1].heading[1]), response[1].url,
                                     truncate_description(description), "Wikipedia", 9)>>
                      ELSE <<>>
             ELSE <<>>
        ELSE LET search_results == Take(response[1].blocks, 3)
             IN  sort_by_relevance(FlattenSeq(
                     [i \in 1..Len(search_results) |->
                         wikipedia_result(search_results[i], query_info.keywords, net.article)]))

(***************************************************************************)
(* scrape_nasa_science and scrape_astrogeology: a search page, then the    *)
(* homepage's featured content when the search page gave nothing           *)
(***************************************************************************)
searched_item(item, keywords, base, source, default) ==
    IF item.title # None /\ item.href # None
    THEN LET title == strip(item.title[1])
             link == fix_relative(base, item.href[1])
             description == text_or(item.desc, default)
         IN  <<Article(title, link, description, source,
                       calculate_relevance(title \o " " \o description, keywords))>>
    ELSE <<>>

featured_item(item, base, source, default) ==
    IF item.title # None /\ item.href # None
    THEN <<Article(strip(item.title[1]), fix_relative(base, item.href[1]),
                   text_or(item.desc, default), source, 2)>>
    ELSE <<>>

\* the homepage request sits in a try block of its own: when it raises, or the
\* status is not 200, nothing is added
featured_content(home, count, base, source, default) ==
    IF home = None THEN <<>>
    ELSE IF home[1].status_code # 200 THEN <<>>
    ELSE LET items == Take(home[1].blocks, count)
         IN  FlattenSeq([i \in 1..Len(items) |-> featured_item(items[i], base, source, default)])

\* net.search answers both search urls of the site
scrape_nasa_science(query_info, net) ==
    LET first == get_with_retry(Repeat(net.search))
        response == IF failed(first) THEN get_with_retry(Repeat(net.search)) ELSE first
    IN  IF failed(response) THEN <<>>
        ELSE LET elements == Take(response[1].blocks, 5)
                 articles == FlattenSeq([i \in 1..Len(elements) |->
                                 searched_item(elements[i], query_info.keywords,
                                     "https://science.nasa.gov", "NASA Science",
                                     "Visit NASA Science for more information on this space-related topic.")])
             IN  IF Len(articles) > 0 THEN sort_by_relevance(articles)
                 ELSE sort_by_relevance(featured_content(net.home, 3,
                          "https://science.nasa.gov", "NASA Science",
                          "Latest featured content from NASA Science."))

scrape_astrogeology(query_info, net) ==
    LET response == get_with_retry(Repeat(net.search))
    IN  IF failed(response) THEN <<>>
        ELSE LET items == Take(response[1].blocks, 5)
                 results == FlattenSeq([i \in 1..Len(items) |->
                                searched_item(items[i], query_info.keywords,
                                    "https://astrogeology.usgs.gov", "USGS Astrogeology",
                                    "Planetary geology resource from USGS Astrogeology Science Center.")])
             IN  IF Len(results) > 0 THEN sort_by_relevance(results)
                 ELSE sort_by_relevance(featured_content(net.home, 3,
                          "https://astrogeology.usgs.gov", "USGS Astrogeology",
                          "Featured content from USGS Astrogeology Science Center."))

(***************************************************************************)
(* scrape_space_facts                                                      *)
(***************************************************************************)
topic_urls ==
    << <<"mars", "mars/">>, <<"earth", "earth/">>, <<"moon", "moon/">>, <<"sun", "sun/">>,
       <<"mercury", "mercury/">>, <<"venus", "venus/">>, <<"jupiter", "jupiter/">>,
       <<"saturn", "saturn/">>, <<"uranus", "uranus/">>, <<"neptune", "neptune/">>,
       <<"pluto", "pluto/">>, <<"planet", "planets/">>, <<"solar system", "solar-system/">>,
       <<"space", "">> >>

\* sum(1 for keyword in keywords if keyword in topic.split())
topic_matches(topic, keywords) ==
    Cardinality({i \in 1..Len(keywords) : keywords[i] \in Range(split(topic))})

RECURSIVE choose_topic(_, _, _, _)
\* the loop over topic_urls: a topic replaces the choice when it has strictly more matches
choose_topic(i, keywords, max_matches, chosen) ==
    IF i > Len(topic_urls) THEN chosen
    ELSE LET matches == topic_matches(topic_urls[i][1], keywords)
         IN  IF matches > max_matches
             THEN choose_topic(i + 1, keywords, matches, topic_urls[i])
             ELSE choose_topic(i + 1, keywords, max_matches, chosen)

RECURSIVE title_case(_, _)
\* str.title(): a letter is upper-cased after a non-letter, lower-cased after a letter
title_case(s, after_letter) ==
    IF Len(s) = 0 THEN ""
    ELSE (IF after_letter THEN LowerChar(Head(s))
          ELSE IF Head(s) = chr(223) THEN "Ss"
          ELSE UpperChar(Head(s)))
         \o title_case(Tail(s), isalpha(Head(s)))

space_facts_section(section, keywords, page_url) ==
    IF section.title # None /\ section.desc # None
    THEN LET title == strip(section.title[1])
             description == strip(section.desc[1])
         IN  <<Article(title, page_url \o "#" \o replace_char(lower(title), " ", "-"),
                       description, "Space Facts",
                       calculate_relevance(title \o " " \o description, keywords))>>
    ELSE <<>>

scrape_space_facts(query_info, net) ==
    LET chosen == choose_topic(1, query_info.keywords, 0, <<"space", "">>)
        chosen_topic == chosen[1]
        page_url == "https://space-facts.com/" \o chosen[2]
        response == get_with_retry(Repeat(net.search))
    IN  IF failed(response) THEN <<>>
        ELSE LET page_title == text_or(response[1].heading, title_case(chosen_topic, FALSE))
                 facts_list == response[1].facts
                 description == "Facts: " \o join(" | ", Take(facts_list, 5))
                 table == IF Len(facts_list) > 0
                          THEN <<Article(page_title \o " Facts", page_url, description, "Space Facts",
                                         calculate_relevance(page_title \o " " \o description,
                                                             query_info.keywords))>>
                          ELSE <<>>
                 sections == Take(response[1].blocks, 2)
             IN  sort_by_relevance(table \o FlattenSeq(
                     [i \in 1..Len(sections) |->
                         space_facts_section(sections[i], query_info.keywords, page_url)]))

(***************************************************************************)
(* The adapter list of get_space_info                                      *)
(***************************************************************************)
MaxResults == 10

ScraperNames ==
    << "Wikipedia", "Google", "NASA", "Space.com", "NASA Science", "Space Facts",
       "USGS Astrogeology", "SpaceX", "NASA Homepage", "Universe Today" >>

\* the scrapers list with every condition True
scraper_condition_always(name, intent, gathered) == TRUE

\* the "condition" entries of the scrapers list, evaluated when the list is
\* built: gathered is the length of all_results at that moment
scraper_condition(name, intent, gathered) ==
    CASE name = "NASA Science"      -> intent \in {"solar", "galaxy", "universe", "asteroid"}
      [] name = "Space Facts"       -> intent \in {"solar", "mars", "moon", "asteroid"}
      [] name = "USGS Astrogeology" -> intent \in {"mars", "moon", "asteroid"}
      [] name = "SpaceX"            -> intent \in {"spacex", "launch", "rocket"}
      [] name = "NASA Homepage"     -> gathered < 3
      [] name = "Universe Today"    -> gathered < 5
      [] OTHER                      -> TRUE

build_scrapers(query_info, gathered) ==
    [i \in 1..Len(ScraperNames) |->
        [name |-> ScraperNames[i],
         condition |-> scraper_condition(ScraperNames[i], query_info.intent, gathered)]]

\* scraper["func"](query_info)
scrape(name, query_info, net) ==
    CASE name = "Wikipedia"         -> scrape_wikipedia(query_info, net)
      [] name = "Google"            -> scrape_google(query_info, net)
      [] name = "NASA"              -> scrape_nasa_news(query_info, net)
      [] name = "Space.com"         -> scrape_space_com(query_info, net)
      [] name = "NASA Science"      -> scrape_nasa_science(query_info, net)
      [] name = "Space Facts"       -> scrape_space_facts(query_info, net)
      [] name = "USGS Astrogeology" -> scrape_astrogeology(query_info, net)
      [] name = "SpaceX"            -> scrape_spacex_info(query_info, net)
      [] name = "NASA Homepage"     -> scrape_nasa_homepage(query_info, net)
      [] name = "Universe Today"    -> scrape_universe_today(query_info, net)

\* the position of the next scraper at or after i whose condition holds
RECURSIVE next_enabled(_, _)
next_enabled(scrapers, i) ==
    IF i > Len(scrapers) THEN i
    ELSE IF scrapers[i].condition THEN i ELSE next_enabled(scrapers, i + 1)

(***************************************************************************)
(* Aggregation: source tracking, deduplication, response assembly          *)
(***************************************************************************)
\* source_results[key] = value on an insertion-ordered dict, held as a
\* sequence of <<key, value>> pairs
dict_set(dict, key, value) ==
    IF \E i \in 1..Len(dict) : dict[i][1] = key
    THEN [i \in 1..Len(dict) |-> IF dict[i][1] = key THEN <<key, value>> ELSE dict[i]]
    ELSE Append(dict, <<key, value>>)

RECURSIVE dedupe(_, _)
\* the loop over the sorted results: the first article of each title is kept
dedupe(results, seen_titles) ==
    IF Len(results) = 0 THEN <<>>
    ELSE IF Head(results).title \in seen_titles
         THEN dedupe(Tail(results), seen_titles)
         ELSE <<Head(results)>> \o dedupe(Tail(results), seen_titles \cup {Head(results).title})

\* unique_results without the sort: the first article gathered of each title is kept
unique_results_unsorted(all) == dedupe(all, {})

unique_results(all) == dedupe(sort_by_relevance(all), {})

build_sources_info(source_results) ==
    LET with_results == SelectSeq(source_results, LAMBDA pair : Len(pair[2]) > 0)
    IN  [sources_queried      |-> [i \in 1..Len(source_results) |-> source_results[i][1]],
         sources_with_results |-> [i \in 1..Len(with_results) |-> with_results[i][1]],
         result_counts        |-> [i \in 1..Len(with_results) |->
                                      <<with_results[i][1], Len(with_results[i][2])>>]]

\* normal_response without the cut to the first ten results
normal_response_untruncated(query_info, all, source_results) ==
    [query_info   |-> query_info,
     results      |-> unique_results(all),
     total_found  |-> Len(unique_results(all)),
     sources_info |-> build_sources_info(source_results)]

\* normal_response with total_found counted after the cut to ten results
normal_response_counted_after(query_info, all, source_results) ==
    [query_info   |-> query_info,
     results      |-> Take(unique_results(all), MaxResults),
     total_found  |-> Len(Take(unique_results(all), MaxResults)),
     sources_info |-> build_sources_info(source_results)]

\* the value returned at the end of the try block
normal_response(query_info, all, source_results) ==
    [query_info   |-> query_info,
     results      |-> Take(unique_results(all), MaxResults),
     total_found  |-> Len(unique_results(all)),
     sources_info |-> build_sources_info(source_results)]

\* degraded_response with the raw query split, not the lower-cased one
degraded_response_raw_split(query) ==
    [query_info  |-> [original_query |-> query, processed_query |-> query,
                      intent |-> "general", keywords |-> split(query)],
     results     |-> <<Article("Cosmic Explorer Information", "#",
                         "We're having trouble processing your query. Our team is working on it. In the meantime, try one of our example queries!",
                         "System", 1)>>,
     total_found |-> 1]

\* the value returned by the except block
degraded_response(query) ==
    [query_info  |-> [original_query |-> query, processed_query |-> query,
                      intent |-> "general", keywords |-> split(lower(query))],
     results     |-> <<Article("Cosmic Explorer Information", "#",
                         "We're having trouble processing your query. Our team is working on it. In the meantime, try one of our example queries!",
                         "System", 1)>>,
     total_found |-> 1]

(***************************************************************************)
(* The environment: the NLTK installation, the queries and what the sites  *)
(* answer                                                                  *)
(***************************************************************************)
\* the number of requests one run of the server handles
MaxRequests == 1

\* punkt: word_tokenize works; lemmatizer: see LemmatizerModes
NltkSetups ==
    { [punkt |-> TRUE,  lemmatizer |-> "wordnet"],
      [punkt |-> TRUE,  lemmatizer |-> "identity"],
      [punkt |-> TRUE,  lemmatizer |-> "missing"],
      [punkt |-> FALSE, lemmatizer |-> "wordnet"] }

\* the adapters replaced by a test double whose call raises: none, one in the
\* middle of the list, or all of them
DoubleSets == { {}, {"NASA"}, Range(ScraperNames) }

\* the queries posted to /api/search
Queries ==
    { "Mars rover mission", "asdkjasd qweqwe", "", " \t\r", "Falcon dragon",
      "the red planets", "Comets", "Web telescope" }

\* the queries passed to get_space_info by a caller other than api.search
DirectQueries == { "", " \t\r" }

\* the queries passed to process_nlp directly
UnitQueries == { "Mars rover mission", "Falcon dragon" }

\* the number of direct calls of process_nlp recorded for one query
MaxCalls == 2

\* the texts passed to calculate_relevance directly
Texts == { "", "NASA Mars rover mission to explore the red planet", "mars", "Black Hole" }

\* the keyword lists passed to calculate_relevance directly
KeywordLists ==
    { <<>>, <<"">>, <<"mars", "nasa", "rover">>, <<"Mars">>, <<"mars", "mars">>,
      <<"black hole", "venus">> }

\* the number of entries of self.user_agents
UserAgents == 5

Down == None

OkPage(url, blocks) == Some(Response(200, url, FALSE, 5000, blocks))

ErrorPage(url) ==
    Some(Response(503, url, FALSE, 2000,
         << Block(Some("Service Unavailable"), Some("/status"), Some("The server is busy.")) >>))

CaptchaPage(url) ==
    Some(Response(200, url, TRUE, 3000,
         << Block(Some("Unusual traffic"), Some("/sorry"), Some("Please solve the captcha.")) >>))

Net(search, home, article) == [search |-> search, home |-> home, article |-> article]

WikipediaArticle ==
    Some([Response(200, "https://en.wikipedia.org/wiki/Mars_rover", FALSE, 5000, <<>>)
          EXCEPT !.heading = Some("Mars rover"),
                 !.content = Some(<< "A Mars rover is a remote-controlled motor vehicle designed to travel on the surface of Mars.",
                                     "Rovers." >>)])

WikipediaSearch ==
    OkPage("https://en.wikipedia.org/w/index.php?search=query",
        << Block(Some("James Webb Space Telescope"), Some("/wiki/James_Webb_Space_Telescope"), None),
           Block(Some("Comet"), Some("/wiki/Comet"), None) >>)

GooglePage ==
    OkPage("https://www.google.com/search?q=query",
        << Block(Some("James Webb Space Telescope"), Some("/url?q=https%3A%2F%2Fwww.esa.int%2Fwebb+telescope&sa=U"),
                 Some("The Webb telescope mission observes the red planet Mars and comets.")),
           Block(Some("Mars rover"), Some("https://www.jpl.nasa.gov/rovers"), Some("Rover missions of JPL.")),
           Block(Some("Google Maps"), Some("https://maps.google.com/"), None),
           Block(Some("Comet facts"), Some("/search?q=comet"), None),
           Block(Some("Falcon 9"), Some("https://www.spacex.com/falcon9"), Some("A reusable rocket.")) >>)

NasaPage ==
    OkPage("https://www.nasa.gov/search/query/",
        << Block(Some(" Mars Rover Mission Update "), Some("/news/mars-rover"), Some("Perseverance rover mission news.")),
           Block(Some("James Webb Space Telescope"), Some("https://webb.nasa.gov/"),
                 Some("Webb mission images of a Mars rover and of comets.")),
           Block(Some("Artemis Moon Program"), Some("artemis"), Some("Return to the Moon.")),
           Block(Some("Dragon docks with station"), Some("/news/dragon"), Some("Falcon launch of the Dragon capsule.")),
           Block(Some("  "), Some("/news/untitled"), None),
           Block(Some("Sixth item"), Some("/news/sixth"), None) >>)

SpaceComPage ==
    OkPage("https://www.space.com/search?q=query",
        << Block(Some("Search"), Some("/search"), Some("Enter your search term")),
           Block(Some("Night sky tonight"), Some("/night-sky"), Some("What to see.")),
           Block(Some("Red planet rover finds comet dust"), Some("/mars-rover-dust"), Some("A rover mission surprise.")),
           Block(Some("Falcon Heavy returns"), Some("https://www.space.com/falcon-heavy"), None) >>)

SpaceComEmptySearch == OkPage("https://www.space.com/search?q=query", <<>>)

SpaceComHome ==
    OkPage("https://www.space.com/",
        << Block(Some("Skywatching guide"), Some("/skywatching"), None),
           Block(Some("Night sky tonight"), Some("/night-sky"), Some("What to see.")) >>)

NasaSciencePage ==
    OkPage("https://science.nasa.gov/search/query/",
        << Block(Some("Comets"), Some("/solar-system/comets"), Some("Comets are cosmic snowballs.")),
           Block(Some("Asteroid watch"), None, None) >>)

SpaceFactsPage ==
    Some([Response(200, "https://space-facts.com/", FALSE, 5000,
                   << Block(Some("Mars profile"), None, Some("The red planet at a glance.")) >>)
          EXCEPT !.heading = Some("Mars"),
                 !.facts = << "Diameter: 6,779 km", "Moons: 2" >>])

AstrogeologyHome ==
    OkPage("https://astrogeology.usgs.gov/",
        << Block(Some("Planetary maps"), Some("/maps"), None) >>)

SpaceXPage ==
    OkPage("https://www.spacex.com/",
        << Block(Some("Falcon 9"), None, Some("A reusable rocket.")),
           Block(Some("Dragon to the station"), None, None) >>)

NasaHomePage ==
    OkPage("https://www.nasa.gov/",
        << Block(Some("Artemis Moon Program"), None, None),
           Block(Some("Image of the day"), Some("/image-of-the-day"), Some("A comet over Mars.")) >>)

UniverseTodayPage ==
    OkPage("https://www.universetoday.com/?s=query",
        << Block(Some("Comet tails explained"), Some("/comet-tails"), Some("How comets shine.")),
           Block(Some("Rover tracks on Mars"), Some("https://www.universetoday.com/rover-tracks"), None),
           Block(Some("Dragon splashdown"), Some("/dragon"), Some("A Falcon mission ends.")),
           Block(Some("Black hole jets"), Some("/jets"), None),
           Block(Some("Image of the day"), Some("/image"), None) >>)

\* what the sites of one adapter may answer during one request
Nets(name) ==
    CASE name = "Wikipedia" ->
            { Net(Down, Down, Down), Net(WikipediaArticle, Down, Down),
              Net(WikipediaSearch, Down, Down) }
      [] name = "Google" ->
            { Net(CaptchaPage("https://www.google.com/sorry"), Down, Down),
              Net(GooglePage, Down, Down) }
      [] name = "NASA" ->
            { Net(Down, Down, Down), Net(NasaPage, Down, Down) }
      [] name = "Space.com" ->
            { Net(Down, Down, Down), Net(SpaceComPage, Down, Down),
              Net(SpaceComEmptySearch, SpaceComHome, Down) }
      [] name = "NASA Science" ->
            { Net(ErrorPage("https://science.nasa.gov/"), Down, Down),
              Net(NasaSciencePage, Down, Down) }
      [] name = "Space Facts" ->
            { Net(Down, Down, Down), Net(SpaceFactsPage, Down, Down) }
      [] name = "USGS Astrogeology" ->
            { Net(Down, Down, Down),
              Net(OkPage("https://astrogeology.usgs.gov/search/results?q=query", <<>>),
                  AstrogeologyHome, Down) }
      [] name = "SpaceX" ->
            { Net(Down, Down, Down), Net(Down, ErrorPage("https://www.spacex.com/"), Down),
              Net(Down, SpaceXPage, Down) }
      [] name = "NASA Homepage" ->
            { Net(Down, ErrorPage("https://www.nasa.gov/"), Down), Net(Down, NasaHomePage, Down) }
      [] name = "Universe Today" ->
            { Net(Down, Down, Down), Net(UniverseTodayPage, Down, Down),
              Net(CaptchaPage("https://www.universetoday.com/?s=query"), Down, Down) }

(***************************************************************************)
(* The server as a state machine                                           *)
(***************************************************************************)
VARIABLES
    nltk,            \* the NLTK installation of this process
    doubles,         \* the adapters replaced by a raising test double
    pc,              \* "idle", "scraping" (inside the adapter loop) or "done"
    requests,        \* the number of requests begun
    entry,           \* "api" (api.search) or "direct" (get_space_info called directly)
    query,           \* the query of the current request
    query_info,      \* the result of process_nlp, None before it returned
    scrapers,        \* the scrapers list of get_space_info
    idx,             \* the position of the adapter loop in scrapers
    all_results,     \* the accumulator of get_space_info
    source_results,  \* the results by source, in insertion order
    invoked,         \* the names of the adapters called for this request whose call has ended, in order
    raised,          \* the names of the adapters whose call raised
    fetched,         \* what the sites answered to the adapter called last, None if it raised
    response,        \* what get_space_info returned, None when it was not called
    http,            \* the status code answered by api.search, 0 when none
    call,            \* the last direct call of calculate_relevance: its arguments and its value
    user_agent,      \* the index in self.user_agents of the last random.choice of get_headers
    analyses,        \* for each query, the outcomes of the direct calls of process_nlp, in order
    retry,           \* the call of get_with_retry under way or made last: its locals and what it returned
    adapter          \* the adapter call under way: its name, what its sites answer and the
                     \* number of its calls of get_with_retry begun; None when no adapter runs

vars == << nltk, doubles, pc, requests, entry, query, query_info, scrapers, idx, all_results,
           source_results, invoked, raised, fetched, response, http,
           call, user_agent, analyses, retry, adapter >>

\* the variables of the request handling
request_vars == << pc, requests, entry, query, query_info, scrapers, idx, all_results,
                   source_results, invoked, raised, fetched, response, http >>

Init ==
    /\ nltk \in NltkSetups
    /\ doubles \in DoubleSets
    /\ pc = "idle"
    /\ requests = 0
    /\ entry = "api"
    /\ query = ""
    /\ query_info = None
    /\ scrapers = <<>>
    /\ idx = 1
    /\ all_results = <<>>
    /\ source_results = <<>>
    /\ invoked = <<>>
    /\ raised = <<>>
    /\ fetched = None
    /\ response = None
    /\ http = 0
    /\ call = None
    /\ user_agent = 1
    /\ analyses = [q \in UnitQueries |-> <<>>]
    /\ retry = [pc |-> "idle", site |-> "none", agent |-> 1, referer |-> None, draws |-> 0,
                retries |-> 0, log |-> <<>>, returned |-> None]
    /\ adapter = None

(***************************************************************************)
(* get_with_retry step by step: one call of get_headers, then the while    *)
(* loop, one requests.get per pass; the adapters call it while they run    *)
(***************************************************************************)
\* the calls of get_with_retry the adapter called name makes when its sites
\* answer net, in order: the site argument and the outcomes of the requests
get_with_retry_calls(name, net) ==
    LET searched == [site |-> "nasa", attempts |-> Repeat(net.search)]
    IN  CASE name = "Wikipedia"         -> << [site |-> "wikipedia", attempts |-> Repeat(net.search)] >>
          [] name = "Google"            -> << [site |-> "google", attempts |-> Repeat(net.search)] >>
          [] name = "NASA" ->
                IF failed(get_with_retry(Repeat(net.search)))
                THEN << searched, searched, searched,
                        [site |-> "nasa", attempts |-> Repeat(net.home)] >>
                ELSE << searched >>
          [] name = "Space.com"         -> << [site |-> "space.com", attempts |-> Repeat(net.search)] >>
          [] name = "NASA Science" ->
                IF failed(get_with_retry(Repeat(net.search)))
                THEN << searched, searched >>
                ELSE << searched >>
          [] name = "Space Facts"       -> << [site |-> "space-facts", attempts |-> Repeat(net.search)] >>
          [] name = "USGS Astrogeology" -> << [site |-> "usgs", attempts |-> Repeat(net.search)] >>
          [] OTHER                      -> <<>>

\* the adapter called name goes on to its k-th call of get_with_retry, when
\* it makes one: get_headers draws a user agent and the loop is entered
adapter_call(name, net, k) ==
    \E calls \in { get_with_retry_calls(name, net) } :
        IF k > Len(calls)
        THEN /\ adapter' = Some([name |-> name, net |-> net, calls |-> Len(calls)])
             /\ UNCHANGED << retry, user_agent >>
        ELSE /\ adapter' = Some([name |-> name, net |-> net, calls |-> k])
             /\ \E i \in 1..UserAgents :
                   /\ user_agent' = i
                   /\ retry' = entered(calls[k].site, i)

\* the adapter under way has made its last request: no call of get_with_retry
\* is under way and none is left
adapter_returns ==
    /\ adapter # None
    /\ retry.pc # "loop"
    /\ adapter[1].calls = Len(get_with_retry_calls(adapter[1].name, adapter[1].net))

\* what one requests.get of the loop may give: an exception (a timeout
\* included) or a response
Outcomes ==
    { Down, OkPage("https://www.nasa.gov/", <<>>), ErrorPage("https://www.nasa.gov/"),
      CaptchaPage("https://www.nasa.gov/"), Some(Response(200, "https://www.nasa.gov/", FALSE, 500, <<>>)) }

\* what the request of the call under way may give: what its sites answer to
\* the adapter under way, anything when get_with_retry was called directly
answers ==
    IF adapter = None THEN Outcomes
    ELSE IF retry.pc = "loop" /\ Len(retry.log) < MaxRetries
    THEN { get_with_retry_calls(adapter[1].name, adapter[1].net)[adapter[1].calls]
               .attempts[Len(retry.log) + 1] }
    ELSE {}

\* get_with_retry(url, site), called directly, up to the loop:
\* headers = self.get_headers(site)
begin_get_with_retry(site) ==
    /\ adapter = None
    /\ retry.pc \in {"idle", "returned"}
    /\ \E i \in 1..UserAgents :
          /\ user_agent' = i
          /\ retry' = entered(site, i)
    /\ UNCHANGED << nltk, doubles, adapter, request_vars, call, analyses >>

\* one pass of the loop, entered also when retries equals max_retries
attempt_past_ceiling(outcome) ==
    /\ retry.pc = "loop"
    /\ retry.retries <= MaxRetries
    /\ retry' = request(retry, outcome)
    /\ UNCHANGED << nltk, doubles, adapter, request_vars, call, user_agent, analyses >>

\* one pass of the loop of the call under way
attempt(outcome) ==
    /\ retry.pc = "loop"
    /\ retry.retries < MaxRetries
    /\ retry' = request(retry, outcome)
    /\ UNCHANGED << nltk, doubles, adapter, request_vars, call, user_agent, analyses >>

\* the loop ends with retries = max_retries: get_with_retry returns None
give_up ==
    /\ retry.pc = "loop"
    /\ retry.retries >= MaxRetries
    /\ retry' = [retry EXCEPT !.pc = "returned", !.returned = None]
    /\ UNCHANGED << nltk, doubles, adapter, request_vars, call, user_agent, analyses >>

\* a call of get_with_retry of the adapter under way has returned and the
\* adapter makes its next one
next_get_with_retry ==
    /\ adapter # None
    /\ retry.pc = "returned"
    /\ adapter[1].calls < Len(get_with_retry_calls(adapter[1].name, adapter[1].net))
    /\ adapter_call(adapter[1].name, adapter[1].net, adapter[1].calls + 1)
    /\ UNCHANGED << nltk, doubles, request_vars, call, analyses >>

\* scraper.scrape_nasa_news(query_info) and the other adapters called
\* directly: the adapter is entered and runs up to its first request
call_scrape(name, net) ==
    /\ adapter = None
    /\ retry.pc \in {"idle", "returned"}
    /\ adapter_call(name, net, 1)
    /\ UNCHANGED << nltk, doubles, request_vars, call, analyses >>

\* the adapter called directly returns: its articles go to the caller, the
\* draw and the requests of its last call of get_with_retry stay on the object
return_scrape ==
    /\ adapter_returns
    /\ adapter' = None
    /\ UNCHANGED << nltk, doubles, retry, request_vars, call, user_agent, analyses >>

(***************************************************************************)
(* get_space_info and api.search                                           *)
(***************************************************************************)
\* get_space_info up to the adapter loop: process_nlp, the accumulators and
\* the scrapers list; the except block when process_nlp raises
begin_get_space_info(q, from) ==
    /\ requests' = requests + 1
    /\ entry' = from
    /\ query' = q
    /\ all_results' = <<>>
    /\ source_results' = <<>>
    /\ invoked' = <<>>
    /\ raised' = <<>>
    /\ fetched' = None
    /\ UNCHANGED << nltk, doubles, retry, adapter, call, user_agent, analyses >>
    /\ IF process_nlp_raises(nltk.punkt, nltk.lemmatizer, q)
       THEN /\ query_info' = None
            /\ scrapers' = <<>>
            /\ idx' = 1
            /\ response' = Some(degraded_response(q))
            /\ http' = IF from = "api" THEN 200 ELSE 0
            /\ pc' = "done"
       ELSE LET info == process_nlp(nltk.punkt, nltk.lemmatizer, q)
                list == build_scrapers(info, 0)
            IN  /\ query_info' = Some(info)
                /\ scrapers' = list
                /\ idx' = next_enabled(list, 1)
                /\ response' = None
                /\ http' = 0
                /\ pc' = "scraping"

\* api.search without the check of the stripped query
search_unvalidated(q) ==
    /\ pc \in {"idle", "done"}
    /\ requests < MaxRequests
    /\ begin_get_space_info(q, "api")

\* api.search: a query that is empty after strip() is answered 400 before the
\* scraper is called
search(q) ==
    /\ pc \in {"idle", "done"}
    /\ requests < MaxRequests
    /\ IF Len(strip(q)) = 0
       THEN /\ requests' = requests + 1
            /\ entry' = "api"
            /\ query' = q
            /\ query_info' = None
            /\ scrapers' = <<>>
            /\ idx' = 1
            /\ all_results' = <<>>
            /\ source_results' = <<>>
            /\ invoked' = <<>>
            /\ raised' = <<>>
            /\ fetched' = None
            /\ response' = None
            /\ http' = 400
            /\ pc' = "done"
            /\ UNCHANGED << nltk, doubles, retry, adapter, call, user_agent, analyses >>
       ELSE begin_get_space_info(q, "api")

\* get_space_info called without the check of api.search
get_space_info(q) ==
    /\ pc \in {"idle", "done"}
    /\ requests < MaxRequests
    /\ begin_get_space_info(q, "direct")

\* results = scraper["func"](query_info): the adapter is entered and runs up
\* to its first request; net is what its sites answer while it runs
enter_scraper ==
    /\ pc = "scraping"
    /\ idx <= Len(scrapers)
    /\ scrapers[idx].name \notin doubles
    /\ adapter = None
    /\ \E net \in Nets(scrapers[idx].name) : adapter_call(scrapers[idx].name, net, 1)
    /\ UNCHANGED << nltk, doubles, request_vars, call, analyses >>

\* run_scraper with the conditions of the list evaluated again after each adapter
run_scraper_regating ==
    /\ pc = "scraping"
    /\ idx <= Len(scrapers)
    /\ adapter_returns
    /\ \E net \in { adapter[1].net } :
          LET source_name == scrapers[idx].name
              results == scrape(source_name, query_info[1], net)
              list == build_scrapers(query_info[1], Len(all_results \o results))
          IN  /\ source_results' = dict_set(source_results, source_name, results)
              /\ all_results' = all_results \o results
              /\ invoked' = Append(invoked, source_name)
              /\ fetched' = Some(net)
              /\ scrapers' = list
              /\ idx' = next_enabled(list, idx + 1)
    /\ adapter' = None
    /\ UNCHANGED << nltk, doubles, retry, user_agent, call, analyses, pc, requests, entry, query, query_info, raised,
                    response, http >>

\* the adapter under way returns to the adapter loop, which stores its
\* results; net is what the adapter's sites answered
run_scraper ==
    /\ pc = "scraping"
    /\ idx <= Len(scrapers)
    /\ adapter_returns
    /\ \E net \in { adapter[1].net } :
          LET source_name == scrapers[idx].name
              results == scrape(source_name, query_info[1], net)
          IN  /\ source_results' = dict_set(source_results, source_name, results)
              /\ all_results' = all_results \o results
              /\ invoked' = Append(invoked, source_name)
              /\ fetched' = Some(net)
    /\ idx' = next_enabled(scrapers, idx + 1)
    /\ adapter' = None
    /\ UNCHANGED << nltk, doubles, retry, user_agent, call, analyses, pc, requests, entry, query, query_info, scrapers, raised,
                    response, http >>

\* a raising adapter that ends the adapter loop
scraper_raises_aborts ==
    /\ pc = "scraping"
    /\ idx <= Len(scrapers)
    /\ scrapers[idx].name \in doubles
    /\ invoked' = Append(invoked, scrapers[idx].name)
    /\ raised' = Append(raised, scrapers[idx].name)
    /\ fetched' = None
    /\ idx' = Len(scrapers) + 1
    /\ UNCHANGED << nltk, doubles, retry, adapter, call, user_agent, analyses, pc, requests, entry, query, query_info, scrapers, all_results,
                    source_results, response, http >>

\* one pass of the adapter loop in which the call raises (the adapter is a
\* raising double): the inner except block logs it and the loop goes on
scraper_raises ==
    /\ pc = "scraping"
    /\ idx <= Len(scrapers)
    /\ scrapers[idx].name \in doubles
    /\ invoked' = Append(invoked, scrapers[idx].name)
    /\ raised' = Append(raised, scrapers[idx].name)
    /\ fetched' = None
    /\ idx' = next_enabled(scrapers, idx + 1)
    /\ UNCHANGED << nltk, doubles, retry, adapter, call, user_agent, analyses, pc, requests, entry, query, query_info, scrapers, all_results,
                    source_results, response, http >>

\* finish with the knowledge base consulted whatever the adapters returned
finish_always_fallback ==
    /\ pc = "scraping"
    /\ idx > Len(scrapers)
    /\ LET fallback_results == get_fallback_results(query_info[1])
           all == all_results \o fallback_results
           sources == dict_set(source_results, "Static Knowledge", fallback_results)
       IN  /\ all_results' = all
           /\ source_results' = sources
           /\ response' = Some(normal_response(query_info[1], all, sources))
    /\ http' = IF entry = "api" THEN 200 ELSE 0
    /\ pc' = "done"
    /\ UNCHANGED << nltk, doubles, retry, adapter, call, user_agent, analyses, requests, entry, query, query_info, scrapers, idx,
                    invoked, raised, fetched >>

\* get_space_info after the loop: the fallback, the deduplication and the response
finish ==
    /\ pc = "scraping"
    /\ idx > Len(scrapers)
    /\ LET fallback_results == IF Len(all_results) = 0
                               THEN get_fallback_results(query_info[1]) ELSE <<>>
           all == all_results \o fallback_results
           sources == IF Len(fallback_results) > 0
                      THEN dict_set(source_results, "Static Knowledge", fallback_results)
                      ELSE source_results
       IN  /\ all_results' = all
           /\ source_results' = sources
           /\ response' = Some(normal_response(query_info[1], all, sources))
    /\ http' = IF entry = "api" THEN 200 ELSE 0
    /\ pc' = "done"
    /\ UNCHANGED << nltk, doubles, retry, adapter, call, user_agent, analyses, requests, entry, query, query_info, scrapers, idx,
                    invoked, raised, fetched >>

Next ==
    \/ \E q \in Queries : search(q)
    \/ \E q \in DirectQueries : get_space_info(q)
    \/ enter_scraper
    \/ \E outcome \in answers : attempt(outcome)
    \/ give_up
    \/ next_get_with_retry
    \/ run_scraper
    \/ scraper_raises
    \/ finish

Spec == Init /\ [][Next]_vars

(***************************************************************************)
(* The methods of SpaceInfoScraper called one by one on one object         *)
(***************************************************************************)
\* scraper.calculate_relevance(text, keywords)
call_calculate_relevance(text, keywords) ==
    /\ call' = Some([text |-> text, keywords |-> keywords,
                     score |-> calculate_relevance(text, keywords)])
    /\ UNCHANGED << nltk, doubles, retry, adapter, request_vars, user_agent, analyses >>

\* scraper.get_headers(site): random.choice picks one of the user agents
get_headers ==
    /\ \E i \in 1..UserAgents : user_agent' = i
    /\ UNCHANGED << nltk, doubles, retry, adapter, request_vars, call, analyses >>

\* scraper.process_nlp(q): the value returned, None when it raised
call_process_nlp(q) ==
    /\ Len(analyses[q]) < MaxCalls
    /\ analyses' = [analyses EXCEPT ![q] = Append(@,
           IF process_nlp_raises(nltk.punkt, nltk.lemmatizer, q)
           THEN None
           ELSE Some(process_nlp(nltk.punkt, nltk.lemmatizer, q)))]
    /\ UNCHANGED << nltk, doubles, retry, adapter, request_vars, call, user_agent >>

UnitNext ==
    \/ \E text \in Texts, keywords \in KeywordLists : call_calculate_relevance(text, keywords)
    \/ get_headers
    \/ \E q \in UnitQueries : call_process_nlp(q)

\* the object under test has no test double in place of its adapters
UnitInit == Init /\ doubles = {}

UnitSpec == UnitInit /\ [][UnitNext]_vars

(***************************************************************************)
(* get_with_retry and the adapters called one by one on one object         *)
(***************************************************************************)
\* the site "none" stands for the default None of get_with_retry
RetryNext ==
    \/ \E site \in { "none", "google", "nasa", "wikipedia", "space.com", "space-facts", "usgs" } :
          begin_get_with_retry(site)
    \/ \E name \in Range(ScraperNames) : \E net \in Nets(name) : call_scrape(name, net)
    \/ \E outcome \in answers : attempt(outcome)
    \/ give_up
    \/ next_get_with_retry
    \/ return_scrape

\* requests.get returns or raises within its timeout and time.sleep returns,
\* so a call under way takes its next step
RetrySpec ==
    /\ UnitInit
    /\ [][RetryNext]_vars
    /\ WF_vars((\E outcome \in answers : attempt(outcome)) \/ give_up)

(***************************************************************************)
(* Properties                                                              *)
(***************************************************************************)
\* get_space_info has returned
Returned == pc = "done" /\ response # None

\* it returned from the try block
NormalPath == Returned /\ query_info # None

\* it returned from the except block
DegradedPath == Returned /\ query_info = None

Titles(articles) == { articles[i].title : i \in 1..Len(articles) }

\* every adapter called for this request returned, and returned the empty list
AllAdaptersEmpty ==
    /\ Len(invoked) > 0
    /\ raised = <<>>
    /\ \A i \in 1..Len(source_results) :
          source_results[i][1] # "Static Knowledge" => Len(source_results[i][2]) = 0

\* C1: every response of get_space_info holds at most ten results, and no two
\* of its results have the same title
C1_AtMostTenUniqueTitles ==
    Returned =>
        LET results == response[1].results
        IN  /\ Len(results) <= MaxResults
            /\ \A i, j \in 1..Len(results) : i # j => results[i].title # results[j].title

\* more than ten distinct titles were gathered, some of them more than once
C1_Witness ==
    /\ NormalPath
    /\ Cardinality(Titles(all_results)) > MaxResults
    /\ Len(all_results) > Cardinality(Titles(all_results))
    /\ Len(response[1].results) = MaxResults

\* C2: every response of get_space_info has at least one result, and its
\* total_found is at least the number of its results
C2_NeverEmpty ==
    Returned =>
        /\ Len(response[1].results) >= 1
        /\ response[1].total_found >= Len(response[1].results)

\* every adapter call raised and the response still holds a result
C2_Witness ==
    /\ NormalPath
    /\ Len(invoked) > 0
    /\ Len(raised) = Len(invoked)
    /\ Len(response[1].results) >= 1

\* C3: a query that is empty or only whitespace, posted to api.search, is
\* answered with the validation error 400, and no adapter is called for it
C3_BlankQueryRejected ==
    (pc = "done" /\ entry = "api" /\ \A i \in 1..Len(query) : CharAt(query, i) \in whitespace) =>
        /\ http = 400
        /\ response = None
        /\ invoked = <<>>
        /\ fetched = None

\* a whitespace-only query was posted and rejected
C3_Witness ==
    /\ pc = "done"
    /\ entry = "api"
    /\ query = " \t\r"
    /\ http = 400
    /\ invoked = <<>>

\* C4: when process_nlp raises, get_space_info still returns: one result of
\* source "System", total_found 1, intent "general" and the keywords of the
\* whitespace split of the lower-cased query; api.search answers 200
C4_DegradedResponse ==
    (pc = "done" /\ requests > 0 /\ (entry = "direct" \/ http # 400)) =>
        /\ response # None
        /\ process_nlp_raises(nltk.punkt, nltk.lemmatizer, query) =>
              /\ Len(response[1].results) = 1
              /\ response[1].results[1].source = "System"
              /\ response[1].total_found = 1
              /\ response[1].query_info.intent = "general"
              /\ response[1].query_info.keywords = split(lower(query))
              /\ entry = "api" => http = 200

\* the lemmatizer failed on a query with a capital letter
C4_Witness ==
    /\ DegradedPath
    /\ nltk.lemmatizer = "missing"
    /\ query = "Mars rover mission"
    /\ response[1].query_info.keywords = <<"mars", "rover", "mission">>
    /\ http = 200

\* C5: every response of get_space_info has the four fields query_info,
\* results, total_found and sources_info
C5_FourFields ==
    Returned =>
        {"query_info", "results", "total_found", "sources_info"} \subseteq DOMAIN response[1]

\* the page requests on which the adapter called name relies
primary_fetches(name, net) ==
    CASE name \in {"SpaceX", "NASA Homepage"} -> {net.home}
      [] name = "NASA"                        -> {net.search, net.home}
      [] OTHER                                -> {net.search}

\* the request raised, or was answered by another status than 200, or by a blocking page
fetch_failed(outcome) ==
    outcome = None \/ outcome[1].status_code # 200 \/ is_blocked(outcome[1])

\* the results stored for a source
results_of(name) ==
    source_results[CHOOSE i \in 1..Len(source_results) : source_results[i][1] = name][2]

\* C6: an adapter whose page requests all failed returns the empty list
C6_FailedFetchGivesNothing ==
    (fetched # None /\ Len(invoked) > 0) =>
        LET name == invoked[Len(invoked)]
        IN  (\A outcome \in primary_fetches(name, fetched[1]) : fetch_failed(outcome))
                => Len(results_of(name)) = 0

\* C7: of the gathered articles with one title, the results hold exactly one,
\* and its relevance is the largest among them (unless ten results of higher
\* rank fill the response)
C7_HighestDuplicateKept ==
    NormalPath =>
        LET results == response[1].results
        IN  /\ \A i \in 1..Len(results) :
                  /\ results[i] \in Range(all_results)
                  /\ \A a \in Range(all_results) :
                        a.title = results[i].title => a.relevance <= results[i].relevance
                  /\ \A j \in 1..Len(results) : results[j].title = results[i].title => j = i
            /\ \A a \in Range(all_results) :
                  a.title \in Titles(results) \/ Len(results) = MaxResults

\* a title was gathered twice, the second time with the higher relevance, and
\* the results hold the second article
C7_Witness ==
    /\ NormalPath
    /\ \E i, j \in 1..Len(all_results) :
          /\ i < j
          /\ all_results[i].title = all_results[j].title
          /\ all_results[i].relevance < all_results[j].relevance
          /\ all_results[j] \in Range(response[1].results)
          /\ \A a \in Range(all_results) :
                a.title = all_results[j].title => a.relevance <= all_results[j].relevance

\* C8: the query "Mars rover mission" is given the intent "mars", and the
\* adapters Space Facts and USGS Astrogeology are therefore in the invocation list
C8_MarsIntent ==
    (query = "Mars rover mission" /\ query_info # None) =>
        /\ query_info[1].intent = "mars"
        /\ \A i \in 1..Len(scrapers) :
              scrapers[i].name \in {"Space Facts", "USGS Astrogeology"} => scrapers[i].condition

\* C9: for the query "Mars rover mission", when every adapter called returned
\* the empty list, the results hold the article "Mars - The Red Planet" of
\* source "Static Knowledge"
C9_MarsFallback ==
    (NormalPath /\ query = "Mars rover mission" /\ AllAdaptersEmpty) =>
        \E i \in 1..Len(response[1].results) :
            /\ response[1].results[i].title = "Mars - The Red Planet"
            /\ response[1].results[i].source = "Static Knowledge"

\* the case of C9 is reached with the WordNet lemmatizer, which reduces mars to mar
C9_Witness ==
    /\ NormalPath
    /\ query = "Mars rover mission"
    /\ AllAdaptersEmpty
    /\ query_info[1].keywords = <<"mar", "rover", "mission">>
    /\ response[1].results[1].title = "Mars - The Red Planet"

\* no keyword of the query is a trigger keyword of a category
NoTriggerOverlap(info) ==
    \A c \in 1..Len(space_keywords) :
        \A k \in 1..Len(space_keywords[c].keywords) :
            space_keywords[c].keywords[k] \notin Range(info.keywords)

\* no topic of the knowledge base occurs in the query, and no keyword of the
\* query occurs in a topic
NoTopicOverlap(info) ==
    \A t \in 1..Len(fallback_data) :
        /\ ~Contains(lower(info.original_query), fallback_data[t].key)
        /\ \A k \in 1..Len(info.keywords) : ~Contains(fallback_data[t].key, info.keywords[k])

\* C10: a query whose keywords overlap no trigger set and no topic of the
\* knowledge base has the intent "general"; when every adapter called returned
\* the empty list, its results are the single article "Space Exploration" of
\* relevance 2, and total_found is 1
C10_GenericFallback ==
    (query_info # None /\ NoTriggerOverlap(query_info[1]) /\ NoTopicOverlap(query_info[1])) =>
        /\ query_info[1].intent = "general"
        /\ (NormalPath /\ AllAdaptersEmpty) =>
              /\ Len(response[1].results) = 1
              /\ response[1].results[1].title = "Space Exploration"
              /\ response[1].results[1].source = "Static Knowledge"
              /\ response[1].results[1].relevance = 2
              /\ response[1].total_found = 1

\* the query "asdkjasd qweqwe" was answered with the generic article alone
C10_Witness ==
    /\ NormalPath
    /\ query = "asdkjasd qweqwe"
    /\ AllAdaptersEmpty
    /\ query_info[1].keywords = <<"asdkjasd", "qweqwe">>
    /\ response[1].results[1].title = "Space Exploration"
    /\ response[1].total_found = 1

\* C11: calculate_relevance is 0 for the empty keyword list and for the empty
\* text, whatever the other argument (a keyword list holding "" included)
C11_ZeroForEmpty ==
    (call # None /\ (call[1].keywords = <<>> \/ call[1].text = "")) => call[1].score = 0

\* the number of entries of keywords that occur in text when case is ignored on both sides
hits_ignoring_case(text, keywords) ==
    Cardinality({ i \in 1..Len(keywords) : Contains(lower(text), lower(keywords[i])) })

\* C12: calculate_relevance is the number of entries of keywords that occur in
\* the text when case is ignored on both sides; the case of the text and of
\* the keywords does not change it
C12_CaseInsensitiveCount ==
    call # None =>
        /\ call[1].score \in Nat
        /\ call[1].score = hits_ignoring_case(call[1].text, call[1].keywords)

\* the category order stated for process_nlp
Categories ==
    << "nasa", "mars", "moon", "iss", "spacex", "satellite", "solar", "asteroid",
       "hubble", "launch", "galaxy", "universe" >>

\* a trigger keyword of the c-th category is an element of the keyword list
category_hit(c, keywords) ==
    \E k \in 1..Len(space_keywords[c].keywords) :
        \E i \in 1..Len(keywords) : keywords[i] = space_keywords[c].keywords[k]

\* C13: the intent is the first category, in the order nasa, mars, moon, iss,
\* spacex, satellite, solar, asteroid, hubble, launch, galaxy, universe, with a
\* trigger keyword in the processed keyword list, and "general" when there is none
C13_FirstMatchingCategory ==
    /\ [c \in 1..Len(space_keywords) |-> space_keywords[c].category] = Categories
    /\ query_info # None =>
          LET intent == query_info[1].intent
              keywords == query_info[1].keywords
          IN  /\ intent \in Range(Categories) \cup {"general"}
              /\ intent = "general" <=> \A c \in 1..Len(Categories) : ~category_hit(c, keywords)
              /\ \A c \in 1..Len(Categories) :
                    intent = Categories[c] =>
                        /\ category_hit(c, keywords)
                        /\ \A d \in 1..(c - 1) : ~category_hit(d, keywords)

\* the keywords of "Mars rover mission" hit the categories nasa, mars and launch,
\* and the intent is the first of them
C13_Witness ==
    /\ query_info # None
    /\ query = "Mars rover mission"
    /\ category_hit(1, query_info[1].keywords)
    /\ category_hit(2, query_info[1].keywords)
    /\ category_hit(10, query_info[1].keywords)
    /\ query_info[1].intent = "nasa"

\* get_space_info was called and got past the check of api.search
Accepted == requests > 0 /\ (entry = "direct" \/ http # 400)

\* C14: process_nlp returns whatever the tokenizer and the lemmatizer do: without
\* the lemmatizer the keywords are the filtered tokens, and the request goes on
\* to the adapters
C14_AnalysisNeverFails ==
    Accepted =>
        /\ query_info # None
        /\ nltk.lemmatizer = "missing" =>
              query_info[1].keywords = filtered_tokens(nltk.punkt, query)
        /\ pc = "done" => Len(scrapers) > 0

\* C16: every article of a response has a title and a link that are not empty,
\* and a relevance that is not negative
C16_ArticlesWellFormed ==
    Returned =>
        \A i \in 1..Len(response[1].results) :
            /\ Len(response[1].results[i].title) > 0
            /\ Len(response[1].results[i].link) > 0
            /\ response[1].results[i].relevance >= 0

\* the fallback knowledge base was consulted for this response
FallbackUsed ==
    NormalPath /\ \E i \in 1..Len(source_results) : source_results[i][1] = "Static Knowledge"

\* the matching rule stated for the knowledge base: the key occurs in the
\* lower-cased query, or is the intent, or one of its words is a keyword
stated_match(key, info) ==
    \/ Contains(lower(info.original_query), key)
    \/ key = info.intent
    \/ \E w \in Range(split(key)) : \E i \in 1..Len(info.keywords) : info.keywords[i] = w

\* C17: the knowledge base returns the article of a topic, with relevance 3,
\* exactly when the topic key occurs in the lower-cased query, or is the
\* intent, or has a word that is a keyword; a keyword that is only a part of
\* a word of the key does not make the topic match
C17_FallbackMatchingRule ==
    FallbackUsed =>
        \A t \in 1..Len(fallback_data) :
            (\E a \in Range(results_of("Static Knowledge")) :
                a.title = fallback_data[t].title /\ a.relevance = 3)
            <=> stated_match(fallback_data[t].key, query_info[1])

\* the sources of this pass: the adapters called, then the knowledge base if it was consulted
attempted == invoked \o (IF FallbackUsed THEN <<"Static Knowledge">> ELSE <<>>)

\* what the source name yielded in this pass: nothing when its call raised
yield(name) ==
    IF \E i \in 1..Len(source_results) : source_results[i][1] = name
    THEN results_of(name) ELSE <<>>

\* C18: sources_queried lists every adapter called in this pass, those that
\* returned nothing and those whose call raised included; sources_with_results
\* lists exactly the sources that yielded an article, and result_counts maps
\* exactly those to their numbers of articles
C18_SourcesInfo ==
    NormalPath =>
        LET info == response[1].sources_info
        IN  /\ info.sources_queried = attempted
            /\ info.sources_with_results = SelectSeq(attempted, LAMBDA name : Len(yield(name)) > 0)
            /\ info.result_counts =
                  [i \in 1..Len(info.sources_with_results) |->
                      << info.sources_with_results[i], Len(yield(info.sources_with_results[i])) >>]

\* the names of the scrapers list whose condition holds, in order
selected == SelectSeq(scrapers, LAMBDA scraper : scraper.condition)

\* C19: an adapter whose call raised contributes no article; every adapter
\* after it in the list is still called; the articles of the adapters before
\* it are kept in the response
C19_RaisingAdapterIsolated ==
    NormalPath =>
        /\ invoked = [i \in 1..Len(selected) |-> selected[i].name]
        /\ \A i \in 1..Len(raised) :
              \A j \in 1..Len(source_results) : source_results[j][1] # raised[i]
        /\ Len(all_results) = Len(FlattenSeq([j \in 1..Len(source_results) |-> source_results[j][2]]))
        /\ \A j \in 1..Len(source_results) :
              \A a \in Range(source_results[j][2]) :
                  /\ a \in Range(all_results)
                  /\ a.title \in Titles(response[1].results)
                        \/ Len(response[1].results) = MaxResults

\* the call of the NASA adapter raised; Space.com was called after it, and
\* an article gathered before it is in the response
C19_Witness ==
    /\ NormalPath
    /\ raised = <<"NASA">>
    /\ \E i, j \in 1..Len(invoked) : i < j /\ invoked[i] = "NASA" /\ invoked[j] = "Space.com"
    /\ \E a \in Range(response[1].results) : a \in Range(yield("Google"))
    /\ Len(yield("Space.com")) > 0

\* the articles returned by the adapters called in this pass
live_results ==
    FlattenSeq([j \in 1..Len(source_results) |->
        IF source_results[j][1] = "Static Knowledge" THEN <<>> ELSE source_results[j][2]])

\* C20: the knowledge base is consulted exactly when the adapters called
\* returned no article at all; the results never hold articles of "Static
\* Knowledge" together with articles of an adapter, and "Static Knowledge" is
\* in sources_queried exactly when the knowledge base was consulted
C20_FallbackOnlyWhenEmpty ==
    NormalPath =>
        LET results == response[1].results
            static == { i \in 1..Len(results) : results[i].source = "Static Knowledge" }
        IN  /\ FallbackUsed <=> Len(live_results) = 0
            /\ FallbackUsed => yield("Static Knowledge") = get_fallback_results(query_info[1])
            /\ static = {} \/ static = 1..Len(results)
            /\ static # {} <=> FallbackUsed
            /\ ("Static Knowledge" \in Range(response[1].sources_info.sources_queried))
                  <=> FallbackUsed

\* every adapter called returned nothing or raised, and the response holds the
\* articles of the knowledge base alone
C20_Witness ==
    /\ NormalPath
    /\ Len(invoked) > 0
    /\ Len(live_results) = 0
    /\ FallbackUsed
    /\ \A a \in Range(response[1].results) : a.source = "Static Knowledge"
    /\ Len(response[1].results) = 2

\* C24: get_with_retry makes at most max_retries requests, returns None exactly
\* when the ceiling is reached without an accepted response, and every call
\* of it returns
C24_RetryTerminates ==
    /\ [](/\ Len(retry.log) <= MaxRetries
          /\ retry.retries <= MaxRetries
          /\ retry.pc = "returned" =>
                (retry.returned = None <=> retry.retries = MaxRetries))
    /\ (retry.pc = "loop") ~> (retry.pc = "returned")

\* a call returned None after three requests, some raising and some blocked
C24_Witness ==
    /\ retry.pc = "returned"
    /\ retry.returned = None
    /\ Len(retry.log) = 3
    /\ \E i, j \in 1..3 : retry.log[i].kind = "raised" /\ retry.log[j].kind = "blocked"

\* block detection as stated: a captcha marker in the body, or a status 200
\* with a body of fewer than 1000 characters
flagged(page) ==
    page.captcha \/ (page.status_code = 200 /\ page.text_len < 1000)

\* C25: get_with_retry never returns a response flagged by block detection
C25_NoBlockedResponseReturned ==
    (retry.pc = "returned" /\ retry.returned # None) => ~flagged(retry.returned[1])

\* a response was returned after two flagged ones were refused
C25_Witness ==
    /\ retry.pc = "returned"
    /\ retry.returned # None
    /\ Len(retry.log) = 3
    /\ retry.log[1].kind = "blocked"
    /\ retry.log[2].kind = "blocked"

\* C26: within one call of get_with_retry the user agent is chosen anew for
\* each request: as many random choices as requests
C26_FreshAgentPerAttempt ==
    Len(retry.log) >= 1 => retry.draws = Len(retry.log)

\* the adapter loop of this request is over
LoopOver == query_info # None /\ pc \in {"scraping", "done"} /\ idx > Len(scrapers)

\* C21: the adapters Wikipedia, Google, NASA and Space.com are called for every
\* query; NASA Science, Space Facts, USGS Astrogeology and SpaceX are called
\* only when the intent is in the category set of the adapter
C21_AdapterGating ==
    /\ LoopOver => {"Wikipedia", "Google", "NASA", "Space.com"} \subseteq Range(invoked)
    /\ query_info # None =>
          LET called == Range(invoked)
              intent == query_info[1].intent
          IN  /\ "NASA Science" \in called => intent \in {"solar", "galaxy", "universe", "asteroid"}
              /\ "Space Facts" \in called => intent \in {"solar", "mars", "moon", "asteroid"}
              /\ "USGS Astrogeology" \in called => intent \in {"mars", "moon", "asteroid"}
              /\ "SpaceX" \in called => intent \in {"spacex", "launch", "rocket"}

\* a query of intent mars: Space Facts and USGS Astrogeology were called,
\* NASA Science and SpaceX were not
C21_Witness ==
    /\ LoopOver
    /\ query_info[1].intent = "mars"
    /\ {"Space Facts", "USGS Astrogeology"} \subseteq Range(invoked)
    /\ "NASA Science" \notin Range(invoked)
    /\ "SpaceX" \notin Range(invoked)

\* C22: the gates of NASA Homepage (fewer than 3 results) and Universe Today
\* (fewer than 5) are evaluated once, before any adapter ran: both entries of
\* the list stay True during the pass, and both adapters are called on every
\* request, however many articles the adapters before them returned
C22_HomepageGatesFixed ==
    /\ (query_info # None /\ pc \in {"scraping", "done"}) =>
          /\ scrapers = build_scrapers(query_info[1], 0)
          /\ \A i \in 1..Len(scrapers) :
                scrapers[i].name \in {"NASA Homepage", "Universe Today"} => scrapers[i].condition
    /\ LoopOver => {"NASA Homepage", "Universe Today"} \subseteq Range(invoked)

\* five articles or more were gathered before NASA Homepage, and both
\* adapters were called all the same
C22_Witness ==
    /\ LoopOver
    /\ raised = <<>>
    /\ Len(yield("Wikipedia")) + Len(yield("Google")) + Len(yield("NASA")) + Len(yield("Space.com")) >= 5
    /\ {"NASA Homepage", "Universe Today"} \subseteq Range(invoked)

\* C23: on the normal path the results are in descending order of relevance,
\* they are the first ten of the articles left after one is kept per title,
\* no article left out has a higher relevance than one included, and
\* total_found is the number of distinct titles gathered
C23_TopTenAndTotal ==
    NormalPath =>
        LET results == response[1].results
            distinct == Cardinality(Titles(all_results))
        IN  /\ \A i \in 1..(Len(results) - 1) : results[i].relevance >= results[i + 1].relevance
            /\ response[1].total_found = distinct
            /\ Len(results) = IF distinct < 10 THEN distinct ELSE 10
            /\ \A a \in Range(all_results) :
                  a.title \notin Titles(results) =>
                      \A i \in 1..Len(results) : a.relevance <= results[i].relevance

\* more than ten titles were gathered: ten results, and total_found counts them all
C23_Witness ==
    /\ NormalPath
    /\ response[1].total_found > 10
    /\ Len(response[1].results) = 10
    /\ response[1].results[1].relevance > response[1].results[10].relevance

\* the adapter called last and what its sites answered
LastFetch == fetched # None /\ Len(invoked) > 0

\* C27: every request of every adapter is made by get_with_retry, so a page
\* flagged by block detection is never handed to an adapter: an adapter
\* whose pages were all flagged returns nothing
C27_EveryFetchGuarded ==
    LastFetch =>
        LET name == invoked[Len(invoked)]
        IN  (\A outcome \in primary_fetches(name, fetched[1]) :
                outcome # None /\ flagged(outcome[1]))
            => Len(results_of(name)) = 0

\* C28: when a candidate of the Space.com search page has a positive
\* relevance, the adapter returns no article of relevance zero; and it
\* returns its articles in descending order of relevance
C28_SpaceComDropsZeroRelevance ==
    (LastFetch /\ invoked[Len(invoked)] = "Space.com") =>
        LET results == results_of("Space.com")
        IN  /\ \A i \in 1..(Len(results) - 1) : results[i].relevance >= results[i + 1].relevance
            /\ (\E i \in 1..Len(results) : results[i].relevance > 0)
                  => \A i \in 1..Len(results) : results[i].relevance > 0

\* C29: every article an adapter returned has an absolute URL as its link
C29_AbsoluteLinks ==
    \A j \in 1..Len(source_results) :
        source_results[j][1] # "Static Knowledge" =>
            \A i \in 1..Len(source_results[j][2]) :
                \/ startswith(source_results[j][2][i].link, "http://")
                \/ startswith(source_results[j][2][i].link, "https://")

\* the result lists of this pass with those of the i-th and j-th source exchanged
exchanged(i, j) ==
    [k \in 1..Len(source_results) |->
        IF k = i THEN source_results[j][2]
        ELSE IF k = j THEN source_results[i][2]
        ELSE source_results[k][2]]

\* C30: with the result lists of the adapters fixed, the order in which the
\* adapters ran does not change the results nor total_found
C30_OrderIndependent ==
    NormalPath =>
        \A i, j \in 1..Len(source_results) :
            i < j =>
                LET all == FlattenSeq(exchanged(i, j))
                IN  /\ Take(unique_results(all), MaxResults) = response[1].results
                    /\ Len(unique_results(all)) = response[1].total_found

====
